---- MODULE Spec2Model ----
(***************************************************************************)
(* WildcardMockLink (src/src/utils.tsx, lines 86-618): the mock registry,  *)
(* the matching of operations against wildcard and regular mocks, the      *)
(* delivery of mocked responses to observers through timers, the open      *)
(* subscription registry, the request logs and the waitFor* promises.      *)
(*                                                                         *)
(* Modelling conventions                                                   *)
(*  - A DocumentNode is a record [operation, name, selections]; print and  *)
(*    addTypenameToDocument are modelled as token sequences so that keys   *)
(*    are built by concatenation as in the source.                         *)
(*  - OperationVariables are [tag, kv]: tag "undefined", "object" (kv is   *)
(*    the sequence of <<name, value>> pairs in construction order) or      *)
(*    "symbol" (MATCH_ANY_PARAMETERS).                                     *)
(*  - A registered response is an object literal named by its id, the       *)
(*    number of its first registration.  The constructor registers a copy  *)
(*    of each response, addMockedResponse the object itself; unless an     *)
(*    action says otherwise every call registers a new object literal.     *)
(*  - An Observable is lazy: its subscriber function runs once per         *)
(*    subscribe call.  A subscription observer is closed by error and by   *)
(*    complete, after which it drops every notification (zen-observable).  *)
(*  - setTimeout callbacks run in order of expiry time, and in creation    *)
(*    order among callbacks with equal expiry time.                        *)
(*  - Promise reactions are microtasks: they run to completion inside the  *)
(*    timer step that settled the promise, before the next timer fires.    *)
(*  - threw names the method whose call threw in the last step, or is      *)
(*    NoError when the last step returned normally.                        *)
(***************************************************************************)
EXTENDS Integers, Sequences, FiniteSets, Bags, TLC

VARIABLES
    wildcardMatches,             \* Map<string, WildcardMock[]>
    regularMatches,              \* Map<string, MockedResponseWithMatchCount[]>
    queries,                     \* StoredOperation[]
    mutations,                   \* StoredOperation[]
    subscriptions,               \* StoredOperation[]
    pendingResponses,            \* Set<Promise<void>>, a promise is named by its observable
    lastResponse,                \* Promise<void> | undefined (0)
    resolvedResponses,           \* the tracking promises that have been resolved
    suppressMissingMockWarnings, \* option
    addTypename,                 \* option
    openSubscriptions,           \* Map<string, FetchResultObserver>
    observables,                 \* the Observable returned by each request call, in call order
    observers,                   \* every subscription observer created by a subscribe call
    timers,                      \* pending setTimeout callbacks
    now,                         \* the timer clock
    warnings,                    \* number of console.warn calls
    threw,                       \* the method that threw an Error in the step just taken
    pushes,                      \* number of values handed to an open subscription
    registered,                  \* every response handed to addMockedResponse, in call order,
                                 \* by the constructor or by a later call
    waits,                       \* the promises returned by the waitFor* calls, in call order
    act,                         \* option: the name of the function that wraps the calls
    acts                         \* the bag of the invocations of act, each with the calls
                                 \* its function made

vars == <<wildcardMatches, regularMatches, queries, mutations, subscriptions,
          pendingResponses, lastResponse, resolvedResponses,
          suppressMissingMockWarnings, addTypename, openSubscriptions,
          observables, observers, timers, now, warnings, threw, pushes,
          registered, waits, act, acts>>

----------------------------------------------------------------------------
(* Bounds of the model *)

MaxMocks == 2      \* responses registered in one behaviour of SpecMatch and SpecKinds
MaxOps == 3        \* operations submitted in one behaviour of SpecMatch and SpecKinds
MaxDeliveryMocks == 1   \* responses registered in one behaviour of the other specifications
MaxDeliveryOps == 1     \* operations submitted in one behaviour of the other specifications
MaxPushes == 2     \* successful send*SubscriptionResult calls in one behaviour
MaxListeners == 1  \* observers the caller attaches to the returned Observables
MaxChannels == 2   \* subscribe calls of the caller in one behaviour of SpecChannel
MaxWaitOps == 2    \* operations submitted in one behaviour of SpecWait
MaxWaits == 1      \* waitFor* calls in one behaviour of SpecWait
MaxQueueOps == 2   \* operations submitted in one behaviour of SpecQueue, SpecCount and SpecProducer

----------------------------------------------------------------------------
(* Maps (JavaScript Map) *)

EmptyMap == <<>>

MapHas(m, k) == k \in DOMAIN m

MapSet(m, k, v) == [x \in (DOMAIN m) \cup {k} |-> IF x = k THEN v ELSE m[x]]

MapDelete(m, k) == [x \in (DOMAIN m) \ {k} |-> m[x]]

----------------------------------------------------------------------------
(* Values *)

Undefined == [tag |-> "undefined", kv |-> <<>>]

MATCH_ANY_PARAMETERS == [tag |-> "symbol", kv |-> <<>>]

Obj(kv) == [tag |-> "object", kv |-> kv]

Doc(operation, name) == [operation |-> operation, name |-> name, selections |-> <<"f">>]

NMUndefined == [k |-> "undefined", n |-> 0]

NMInfinity == [k |-> "infinity", n |-> 0]

NMNumber(n) == [k |-> "number", n |-> n]

\* no Error was thrown
NoError == ""

\* the absence of a mock (undefined), with the fields of a mock
NoMock ==
    [id |-> 0, result |-> "none", error |-> FALSE, nMatches |-> NMUndefined, delay |-> 0,
     request |-> [query |-> Doc("none", "none"), variables |-> Undefined]]

----------------------------------------------------------------------------
(* Canonical keys *)

SeqContains(s, x) == \E i \in 1..Len(s) : s[i] = x

\* addTypenameToDocument of @apollo/client/utilities: adds the __typename
\* selection when the document does not have it yet
addTypenameToDocument(query) ==
    IF SeqContains(query.selections, "__typename")
    THEN query
    ELSE [query EXCEPT !.selections = Append(@, "__typename")]

\* print of graphql: the document as text (a sequence of tokens)
print(query) ==
    <<query.operation, query.name, "{">> \o query.selections \o <<"}">>

queryToString(typename, query) ==
    print(IF typename THEN addTypenameToDocument(query) ELSE query)

KeyRank(name) == CASE name = "a" -> 1 [] name = "b" -> 2 [] OTHER -> 3

RECURSIVE InsertSorted(_, _)
InsertSorted(pair, sorted) ==
    IF sorted = <<>> THEN <<pair>>
    ELSE IF KeyRank(pair[1]) <= KeyRank(Head(sorted)[1])
         THEN <<pair>> \o sorted
         ELSE <<Head(sorted)>> \o InsertSorted(pair, Tail(sorted))

RECURSIVE SortPairs(_)
SortPairs(kv) ==
    IF kv = <<>> THEN <<>> ELSE InsertSorted(Head(kv), SortPairs(Tail(kv)))

RECURSIVE PairTokens(_)
PairTokens(kv) ==
    IF kv = <<>> THEN <<>>
    ELSE <<Head(kv)[1], ":", Head(kv)[2]>>
         \o (IF Len(kv) > 1 THEN <<",">> ELSE <<>>)
         \o PairTokens(Tail(kv))

\* (mutation) the members are written in construction order
stringifyInOrder(object) == <<"{">> \o PairTokens(object.kv) \o <<"}">>

\* fast-json-stable-stringify of an object: keys in sorted order
stringify(object) == <<"{">> \o PairTokens(SortPairs(object.kv)) \o <<"}">>

queryAndVariablesToString(typename, query, variables) ==
    queryToString(typename, query)
        \o stringify(IF variables.tag = "undefined" THEN Obj(<<>>) ELSE variables)

----------------------------------------------------------------------------
(* Mock registry *)

isNotWildcard(mock) == mock.request.variables # MATCH_ANY_PARAMETERS

\* the mock stored for a wildcard response: result, nMatches, delay and the
\* request without the wildcard symbol; no other field of the response is kept
WildcardStoredMock(response) ==
    [id |-> response.id,
     result |-> response.result,
     error |-> FALSE,
     nMatches |-> response.nMatches,
     delay |-> response.delay,
     request |-> [response.request EXCEPT !.variables =
                     IF @ = MATCH_ANY_PARAMETERS THEN Undefined ELSE @]]

\* (mutation) the response is put at the head of the queue
MapUnshift(m, k, v) == IF MapHas(m, k) THEN MapSet(m, k, <<v>> \o m[k]) ELSE MapSet(m, k, <<v>>)

MapPush(m, k, v) == IF MapHas(m, k) THEN MapSet(m, k, Append(m[k], v)) ELSE MapSet(m, k, <<v>>)

\* addMockedResponse for one response; [wildcardMatches, regularMatches]
addMockedResponse(wm, rm, typename, response) ==
    IF isNotWildcard(response)
    THEN [wildcardMatches |-> wm,
          regularMatches |->
              MapPush(rm, queryAndVariablesToString(typename, response.request.query,
                                                    response.request.variables), response)]
    ELSE [wildcardMatches |->
              MapPush(wm, queryToString(typename, response.request.query),
                      WildcardStoredMock(response)),
          regularMatches |-> rm]

\* --nextMock.nMatches: a number is decremented, Infinity stays Infinity;
\* undefined is not decremented (the || short-circuits)
DecrementMatches(mock) ==
    IF mock.nMatches.k = "number" THEN [mock EXCEPT !.nMatches.n = @ - 1] ELSE mock

\* (mutation) the count is compared before it is decremented
MatchesUsedUpLate(decremented) ==
    \/ decremented.nMatches.k = "undefined"
    \/ decremented.nMatches.k = "number" /\ decremented.nMatches.n = -1

\* (mutation) every count that is not a finite number is treated as omitted
MatchesUsedUpNotFinite(decremented) ==
    \/ decremented.nMatches.k # "number"
    \/ decremented.nMatches.k = "number" /\ decremented.nMatches.n = 0

\* (mutation) an omitted count never runs out
MatchesUsedUpNoDefault(decremented) ==
    decremented.nMatches.k = "number" /\ decremented.nMatches.n = 0

\* nextMock.nMatches === undefined || --nextMock.nMatches === 0
MatchesUsedUp(decremented) ==
    \/ decremented.nMatches.k = "undefined"
    \/ decremented.nMatches.k = "number" /\ decremented.nMatches.n = 0

\* (mutation) the key of a queue that ran empty stays in the map
ConsumeHeadKeeping(map, mockKey) ==
    IF ~MapHas(map, mockKey) \/ map[mockKey] = <<>>
    THEN [found |-> FALSE, mock |-> NoMock, map |-> map]
    ELSE LET mocks == map[mockKey]
             nextMock == DecrementMatches(mocks[1])
             rest == IF MatchesUsedUp(nextMock) THEN Tail(mocks)
                     ELSE <<nextMock>> \o Tail(mocks)
         IN  [found |-> TRUE, mock |-> nextMock, map |-> MapSet(map, mockKey, rest)]

\* the head of the queue of mockKey is taken: [found, mock, map]
ConsumeHead(map, mockKey) ==
    IF ~MapHas(map, mockKey)
    THEN [found |-> FALSE, mock |-> NoMock, map |-> map]
    ELSE LET mocks == map[mockKey]
             nextMock == DecrementMatches(mocks[1])
             rest == IF MatchesUsedUp(nextMock) THEN Tail(mocks)
                     ELSE <<nextMock>> \o Tail(mocks)
         IN  [found |-> TRUE,
              mock |-> nextMock,
              map |-> IF rest = <<>> THEN MapDelete(map, mockKey)
                      ELSE MapSet(map, mockKey, rest)]

\* (mutation) the wildcard mocks are looked up with the variables in the key
getWildcardMockMatchByVariables(wm, typename, op) ==
    ConsumeHead(wm, queryAndVariablesToString(typename, op.query, op.variables))

\* (mutation) the mock is handed back with the variables it is stored with
getWildcardMockMatchStored(wm, typename, op) == ConsumeHead(wm, queryToString(typename, op.query))

getWildcardMockMatch(wm, typename, op) ==
    LET res == ConsumeHead(wm, queryToString(typename, op.query))
    IN  IF res.found
        THEN [res EXCEPT !.mock = [res.mock EXCEPT !.request.variables = op.variables]]
        ELSE res

\* a regular queue holds the registered response objects themselves, so
\* --nextMock.nMatches is seen through every queue entry that is the object
\* of nextMock
SharedDecrement(map, nextMock) ==
    [k \in DOMAIN map |->
        [j \in 1..Len(map[k]) |->
            IF map[k][j].id = nextMock.id
            THEN [map[k][j] EXCEPT !.nMatches = nextMock.nMatches]
            ELSE map[k][j]]]

getRegularMockMatch(rm, typename, op) ==
    LET res == ConsumeHead(rm, queryAndVariablesToString(typename, op.query, op.variables))
    IN  IF res.found THEN [res EXCEPT !.map = SharedDecrement(res.map, res.mock)] ELSE res

\* (mutation) the regular mocks are looked up first
MatchOperationRegularFirst(wm, rm, typename, op) ==
    LET w == getWildcardMockMatch(wm, typename, op)
        r == getRegularMockMatch(rm, typename, op)
    IN  IF r.found
        THEN [mode |-> "regular", mock |-> r.mock,
              wildcardMatches |-> wm, regularMatches |-> r.map]
        ELSE IF w.found
        THEN [mode |-> "wildcard", mock |-> w.mock,
              wildcardMatches |-> w.map, regularMatches |-> rm]
        ELSE [mode |-> "none", mock |-> NoMock,
              wildcardMatches |-> wm, regularMatches |-> rm]

\* (mutation) a match is taken from the wildcard and from the regular mocks
MatchOperationBoth(wm, rm, typename, op) ==
    LET w == getWildcardMockMatch(wm, typename, op)
        r == getRegularMockMatch(rm, typename, op)
    IN  IF w.found
        THEN [mode |-> "wildcard", mock |-> w.mock,
              wildcardMatches |-> w.map, regularMatches |-> r.map]
        ELSE IF r.found
        THEN [mode |-> "regular", mock |-> r.mock,
              wildcardMatches |-> wm, regularMatches |-> r.map]
        ELSE [mode |-> "none", mock |-> NoMock,
              wildcardMatches |-> wm, regularMatches |-> rm]

\* (mutation) a mock without result and error is matched but not consumed
MatchOperationPeeking(wm, rm, typename, op) ==
    LET w == getWildcardMockMatch(wm, typename, op)
        r == getRegularMockMatch(rm, typename, op)
        kept(mock) == ~mock.error /\ mock.result = "none"
    IN  IF w.found
        THEN [mode |-> "wildcard", mock |-> w.mock,
              wildcardMatches |-> IF kept(w.mock) THEN wm ELSE w.map, regularMatches |-> rm]
        ELSE IF r.found
        THEN [mode |-> "regular", mock |-> r.mock,
              wildcardMatches |-> wm, regularMatches |-> IF kept(r.mock) THEN rm ELSE r.map]
        ELSE [mode |-> "none", mock |-> NoMock,
              wildcardMatches |-> wm, regularMatches |-> rm]

\* the lookup of request and requestSubscription: the wildcard mocks first,
\* the regular mocks only when no wildcard mock matched
MatchOperation(wm, rm, typename, op) ==
    LET w == getWildcardMockMatch(wm, typename, op)
        r == getRegularMockMatch(rm, typename, op)
    IN  IF w.found
        THEN [mode |-> "wildcard", mock |-> w.mock,
              wildcardMatches |-> w.map, regularMatches |-> rm]
        ELSE IF r.found
        THEN [mode |-> "regular", mock |-> r.mock,
              wildcardMatches |-> wm, regularMatches |-> r.map]
        ELSE [mode |-> "none", mock |-> NoMock,
              wildcardMatches |-> wm, regularMatches |-> rm]

----------------------------------------------------------------------------
(* Observables, observers and timers *)

NoKey == <<>>

\* (mutation) the variables of the operation are not stored
toStoredOperationOfQuery(op) == [query |-> op.query, variables |-> Undefined, context |-> op.context]

toStoredOperation(op) == [query |-> op.query, variables |-> op.variables, context |-> op.context]

\* observableWithError(error): every subscriber is sent the error
ErrorObservable(op, error, match, nreg) ==
    [op |-> op, kind |-> "error", error |-> error, mode |-> match.mode, mock |-> match.mock,
     complete |-> FALSE, key |-> NoKey, nreg |-> nreg]

\* (mutation) every response is forwarded with complete set
ForwardObservableCompleting(op, match, complete, key, nreg) ==
    [op |-> op, kind |-> "forward", error |-> "", mode |-> match.mode, mock |-> match.mock,
     complete |-> TRUE, key |-> key, nreg |-> nreg]

\* new Observable(observer => forwardResponseToObserver(observer, mock, complete, act)),
\* for a subscription preceded by openSubscriptions.set(key, observer)
ForwardObservable(op, match, complete, key, nreg) ==
    [op |-> op, kind |-> "forward", error |-> "", mode |-> match.mode, mock |-> match.mock,
     complete |-> complete, key |-> key, nreg |-> nreg]

NewObserver(obs, internal, t) ==
    [obs |-> obs, internal |-> internal, closed |-> FALSE, since |-> t, events |-> <<>>]

\* getResultFromFetchResult(result, variables)
getResultFromFetchResult(mock, variables) ==
    [id |-> mock.id, from |-> "mock",
     args |-> IF mock.result = "function" THEN variables ELSE Undefined]

\* (mutation) a response without result is forwarded as an error
forwardResponseToObserverElse(observer, response, complete, t) ==
    IF response.result # "none"
    THEN <<[observer |-> observer, type |-> "next",
            value |-> getResultFromFetchResult(response, response.request.variables),
            complete |-> complete, due |-> t + response.delay]>>
    ELSE <<[observer |-> observer, type |-> "error",
            value |-> [id |-> response.id, from |-> "mock", args |-> Undefined],
            complete |-> FALSE, due |-> t + response.delay]>>

\* forwardResponseToObserver: the timers it sets (one or none)
forwardResponseToObserver(observer, response, complete, t) ==
    IF response.result # "none"
    THEN <<[observer |-> observer, type |-> "next",
            value |-> getResultFromFetchResult(response, response.request.variables),
            complete |-> complete, due |-> t + response.delay]>>
    ELSE IF response.error
    THEN <<[observer |-> observer, type |-> "error",
            value |-> [id |-> response.id, from |-> "mock", args |-> Undefined],
            complete |-> FALSE, due |-> t + response.delay]>>
    ELSE <<>>

\* a notification sent to a subscription observer: dropped when the observer
\* is closed; error and complete close it
Notify(obsvs, o, type, value, t) ==
    IF obsvs[o].closed THEN obsvs
    ELSE [obsvs EXCEPT ![o].events = Append(@, [type |-> type, value |-> value, at |-> t]),
                       ![o].closed = (type \in {"error", "complete"})]

\* act(fun), or callFunction(fun) when no act was configured: one invocation
\* of the hook, which runs fun once; calls are the observer methods fun called
Invocation(hook, calls) == [hook |-> hook, calls |-> calls]

\* observer.next(value) or observer.error(error) inside the function handed to act
Call(observer, type, value) == [observer |-> observer, type |-> type, value |-> value]

\* (mutation) an error is sent outside act
TimerActsOfResults(hook, timer) ==
    IF timer.type = "error" THEN EmptyBag
    ELSE SetToBag({Invocation(hook, <<Call(timer.observer, timer.type, timer.value)>>)})

\* the invocations of act in the callback forwardResponseToObserver hands to
\* setTimeout: one, that wraps the call of observer.next or observer.error
TimerActs(hook, timer) ==
    SetToBag({Invocation(hook, <<Call(timer.observer, timer.type, timer.value)>>)})

NoValue == [id |-> 0, from |-> "none", args |-> Undefined]

ErrorValue(error) == [id |-> 0, from |-> error, args |-> Undefined]

CloseValue == [id |-> 0, from |-> "close", args |-> Undefined]

PushValue(n) == [id |-> n, from |-> "push", args |-> Undefined]

----------------------------------------------------------------------------
(* Initial state: new WildcardMockLink(mockedResponses, options) *)

\* mockedResponses.forEach(... this.addMockedResponse(...)): the registries
\* after the first n responses were added
RECURSIVE AddAll(_, _, _)
AddAll(mockedResponses, n, typename) ==
    IF n = 0
    THEN [wildcardMatches |-> EmptyMap, regularMatches |-> EmptyMap]
    ELSE LET maps == AddAll(mockedResponses, n - 1, typename)
         IN  addMockedResponse(maps.wildcardMatches, maps.regularMatches, typename,
                               mockedResponses[n])

\* new WildcardMockLink(mockedResponses, {suppressMissingMockWarnings, act})
ConstructorWith(mockedResponses, suppress, hook) ==
    /\ wildcardMatches = AddAll(mockedResponses, Len(mockedResponses), TRUE).wildcardMatches
    /\ regularMatches = AddAll(mockedResponses, Len(mockedResponses), TRUE).regularMatches
    /\ registered = [i \in 1..Len(mockedResponses) |->
                        [response |-> mockedResponses[i], removed |-> FALSE, removedAt |-> 0,
                         via |-> "constructor"]]
    /\ suppressMissingMockWarnings = suppress
    /\ queries = <<>>
    /\ mutations = <<>>
    /\ subscriptions = <<>>
    /\ pendingResponses = {}
    /\ lastResponse = 0
    /\ resolvedResponses = {}
    /\ addTypename = TRUE
    /\ openSubscriptions = EmptyMap
    /\ observables = <<>>
    /\ observers = <<>>
    /\ timers = <<>>
    /\ now = 0
    /\ warnings = 0
    /\ threw = NoError
    /\ pushes = 0
    /\ waits = <<>>
    /\ act = hook
    /\ acts = EmptyBag

\* the link constructed without the option act: this.act = callFunction
Constructor(mockedResponses, suppress) ==
    ConstructorWith(mockedResponses, suppress, "callFunction")

\* new WildcardMockLink([]) with the default options
Init == Constructor(<<>>, FALSE)

----------------------------------------------------------------------------
(* Operations of the link *)

Response(id, query, variables, result, error, nMatches, delay) ==
    [id |-> id, request |-> [query |-> query, variables |-> variables],
     result |-> result, error |-> error, nMatches |-> nMatches, delay |-> delay]

\* link.addMockedResponse(response)
AddMockedResponse(query, variables, result, error, nMatches, delay) ==
    /\ LET response == Response(Len(registered) + 1, query, variables, result, error,
                                nMatches, delay)
           maps == addMockedResponse(wildcardMatches, regularMatches, addTypename, response)
       IN  /\ wildcardMatches' = maps.wildcardMatches
           /\ regularMatches' = maps.regularMatches
           /\ registered' = Append(registered,
                                   [response |-> response, removed |-> FALSE, removedAt |-> 0,
                                    via |-> "addMockedResponse"])
    /\ threw' = NoError
    /\ UNCHANGED <<queries, mutations, subscriptions, pendingResponses, lastResponse,
                   resolvedResponses, suppressMissingMockWarnings, addTypename,
                   openSubscriptions, observables, observers, timers, now, warnings, pushes,
                   waits, act, acts>>

\* link.addMockedResponse(response, response): one object literal is handed
\* over twice
AddMockedResponseTwice(query, variables, result, error, nMatches, delay) ==
    /\ LET response == Response(Len(registered) + 1, query, variables, result, error,
                                nMatches, delay)
           once == addMockedResponse(wildcardMatches, regularMatches, addTypename, response)
           maps == addMockedResponse(once.wildcardMatches, once.regularMatches, addTypename,
                                     response)
           record == [response |-> response, removed |-> FALSE, removedAt |-> 0,
                      via |-> "addMockedResponse"]
       IN  /\ wildcardMatches' = maps.wildcardMatches
           /\ regularMatches' = maps.regularMatches
           /\ registered' = registered \o <<record, record>>
    /\ threw' = NoError
    /\ UNCHANGED <<queries, mutations, subscriptions, pendingResponses, lastResponse,
                   resolvedResponses, suppressMissingMockWarnings, addTypename,
                   openSubscriptions, observables, observers, timers, now, warnings, pushes,
                   waits, act, acts>>

\* (mutation) only the response at the head of the queue is removed
RemoveWildcardMockedResponseHead(query) ==
    /\ LET mockKey == queryToString(addTypename, query)
       IN  wildcardMatches' =
              IF ~MapHas(wildcardMatches, mockKey) THEN wildcardMatches
              ELSE IF Len(wildcardMatches[mockKey]) = 1 THEN MapDelete(wildcardMatches, mockKey)
              ELSE MapSet(wildcardMatches, mockKey, Tail(wildcardMatches[mockKey]))
    /\ registered' =
          [i \in 1..Len(registered) |->
              IF /\ ~isNotWildcard(registered[i].response)
                 /\ ~registered[i].removed
                 /\ queryToString(addTypename, registered[i].response.request.query)
                        = queryToString(addTypename, query)
              THEN [registered[i] EXCEPT !.removed = TRUE, !.removedAt = Len(observables)]
              ELSE registered[i]]
    /\ threw' = NoError
    /\ UNCHANGED <<regularMatches, queries, mutations, subscriptions, pendingResponses,
                   lastResponse, resolvedResponses, suppressMissingMockWarnings, addTypename,
                   openSubscriptions, observables, observers, timers, now, warnings, pushes,
                   waits, act, acts>>

\* link.removeWildcardMockedResponse(request)
RemoveWildcardMockedResponse(query) ==
    /\ wildcardMatches' = MapDelete(wildcardMatches, queryToString(addTypename, query))
    /\ registered' =
          [i \in 1..Len(registered) |->
              IF /\ ~isNotWildcard(registered[i].response)
                 /\ ~registered[i].removed
                 /\ queryToString(addTypename, registered[i].response.request.query)
                        = queryToString(addTypename, query)
              THEN [registered[i] EXCEPT !.removed = TRUE, !.removedAt = Len(observables)]
              ELSE registered[i]]
    /\ threw' = NoError
    /\ UNCHANGED <<regularMatches, queries, mutations, subscriptions, pendingResponses,
                   lastResponse, resolvedResponses, suppressMissingMockWarnings, addTypename,
                   openSubscriptions, observables, observers, timers, now, warnings, pushes,
                   waits, act, acts>>

\* (mutation) the check for a mock without result and error is missing
IsIncompleteNever(mock) == FALSE

\* !mock.error && !mock.result
IsIncomplete(mock) == ~mock.error /\ mock.result = "none"

\* (mutation) the warning is logged whatever the option
MissingMockWarningAlways(suppress) == 1

\* if (!this.suppressMissingMockWarnings) console.warn(errorString): the
\* number of warnings logged for an operation no mock matched
MissingMockWarning(suppress) == IF ~suppress THEN 1 ELSE 0

\* (mutation) the Observable of a subscription is tracked too
TrackedSubscriptions(isSubscription, observable) == observable.kind = "forward"

\* (mutation) the Observable of a query or mutation is tracked whatever it sends
TrackedErrors(isSubscription, observable) == ~isSubscription

\* setLastResponsePromiseFromObservable is called for the Observable: request
\* calls it for the Observable that forwards a response, requestSubscription
\* never does
Tracked(isSubscription, observable) == ~isSubscription /\ observable.kind = "forward"

\* link.request(op), requestSubscription(op) included; the Observable it
\* returns is appended to observables
Request(query, variables) ==
    /\ LET op == [query |-> query, variables |-> variables, context |-> "ctx"]
           isSubscription == query.operation = "subscription"
           match == MatchOperation(wildcardMatches, regularMatches, addTypename, op)
           nreg == Len(registered)
           missing == match.mode = "none"
           incomplete == ~missing /\ IsIncomplete(match.mock)
           key == IF match.mode = "wildcard"
                  THEN queryToString(addTypename, op.query)
                  ELSE queryAndVariablesToString(addTypename, op.query, op.variables)
           observable ==
               IF missing THEN ErrorObservable(op, "NoMocksMatched", match, nreg)
               ELSE IF isSubscription THEN ForwardObservable(op, match, FALSE, key, nreg)
               ELSE IF incomplete THEN ErrorObservable(op, "MustProvide", match, nreg)
               ELSE ForwardObservable(op, match, TRUE, NoKey, nreg)
           \* setLastResponsePromiseFromObservable(response)
           tracked == Tracked(isSubscription, observable)
           promise == Len(observables) + 1
           tracker == Len(observers) + 1
       IN  /\ subscriptions' = IF isSubscription
                               THEN Append(subscriptions, toStoredOperation(op))
                               ELSE subscriptions
           /\ mutations' = IF ~isSubscription /\ query.operation = "mutation"
                           THEN Append(mutations, toStoredOperation(op))
                           ELSE mutations
           /\ queries' = IF ~isSubscription /\ query.operation # "mutation"
                         THEN Append(queries, toStoredOperation(op))
                         ELSE queries
           /\ wildcardMatches' = match.wildcardMatches
           /\ regularMatches' = match.regularMatches
           /\ warnings' = IF missing
                          THEN warnings + MissingMockWarning(suppressMissingMockWarnings)
                          ELSE warnings
           /\ observables' = Append(observables, observable)
           /\ observers' = IF tracked
                           THEN Append(observers, NewObserver(promise, TRUE, now))
                           ELSE observers
           /\ timers' = IF tracked
                        THEN timers \o forwardResponseToObserver(tracker, match.mock, TRUE, now)
                        ELSE timers
           /\ lastResponse' = IF tracked THEN promise ELSE lastResponse
           /\ pendingResponses' = IF tracked THEN pendingResponses \cup {promise}
                                  ELSE pendingResponses
    /\ threw' = NoError
    /\ UNCHANGED <<resolvedResponses, suppressMissingMockWarnings, addTypename,
                   openSubscriptions, now, pushes, registered, waits, act, acts>>

CallerObservers(i) == {o \in 1..Len(observers) : observers[o].obs = i /\ ~observers[o].internal}

\* (mutation) a response without delay is forwarded inside the subscribe call
SubscribeDelivering(i) ==
    /\ LET observable == observables[i]
           o == Len(observers) + 1
           attached == Append(observers, NewObserver(i, FALSE, now))
       IN  IF observable.kind = "error"
           THEN /\ observers' = Notify(attached, o, "error", ErrorValue(observable.error), now)
                /\ UNCHANGED <<openSubscriptions, timers>>
           ELSE LET set == forwardResponseToObserver(o, observable.mock, observable.complete,
                                                     now)
                    atOnce == set # <<>> /\ observable.mock.delay = 0
                    sent == Notify(attached, o, set[1].type, set[1].value, now)
                IN  /\ observers' = IF ~atOnce THEN attached
                                      ELSE IF set[1].complete
                                      THEN Notify(sent, o, "complete", NoValue, now)
                                      ELSE sent
                    /\ openSubscriptions' = IF observable.key # NoKey
                                            THEN MapSet(openSubscriptions, observable.key, o)
                                            ELSE openSubscriptions
                    /\ timers' = IF atOnce THEN timers ELSE timers \o set
    /\ threw' = NoError
    /\ UNCHANGED <<wildcardMatches, regularMatches, queries, mutations, subscriptions,
                   pendingResponses, lastResponse, resolvedResponses,
                   suppressMissingMockWarnings, addTypename, observables, now, warnings,
                   pushes, registered, waits, act, acts>>

\* (mutation) a key that is registered already keeps its observer
SubscribeKeepingFirst(i) ==
    /\ LET observable == observables[i]
           o == Len(observers) + 1
           attached == Append(observers, NewObserver(i, FALSE, now))
       IN  IF observable.kind = "error"
           THEN /\ observers' = Notify(attached, o, "error", ErrorValue(observable.error), now)
                /\ UNCHANGED <<openSubscriptions, timers>>
           ELSE /\ observers' = attached
                /\ openSubscriptions' = IF /\ observable.key # NoKey
                                           /\ ~MapHas(openSubscriptions, observable.key)
                                        THEN MapSet(openSubscriptions, observable.key, o)
                                        ELSE openSubscriptions
                /\ timers' = timers \o forwardResponseToObserver(o, observable.mock,
                                                                 observable.complete, now)
    /\ threw' = NoError
    /\ UNCHANGED <<wildcardMatches, regularMatches, queries, mutations, subscriptions,
                   pendingResponses, lastResponse, resolvedResponses,
                   suppressMissingMockWarnings, addTypename, observables, now, warnings,
                   pushes, registered, waits, act, acts>>

\* (mutation) an Observable that has an observer already sets no timer for
\* another one
SubscribeSharing(i) ==
    /\ LET observable == observables[i]
           o == Len(observers) + 1
           attached == Append(observers, NewObserver(i, FALSE, now))
           first == \A p \in 1..Len(observers) : observers[p].obs # i
       IN  IF observable.kind = "error"
           THEN /\ observers' = Notify(attached, o, "error", ErrorValue(observable.error), now)
                /\ UNCHANGED <<openSubscriptions, timers>>
           ELSE /\ observers' = attached
                /\ openSubscriptions' = IF observable.key # NoKey
                                        THEN MapSet(openSubscriptions, observable.key, o)
                                        ELSE openSubscriptions
                /\ timers' = IF first
                             THEN timers \o forwardResponseToObserver(o, observable.mock,
                                                                      observable.complete, now)
                             ELSE timers
    /\ threw' = NoError
    /\ UNCHANGED <<wildcardMatches, regularMatches, queries, mutations, subscriptions,
                   pendingResponses, lastResponse, resolvedResponses,
                   suppressMissingMockWarnings, addTypename, observables, now, warnings,
                   pushes, registered, waits, act, acts>>

\* the caller subscribes an observer to the Observable returned by the i-th request
Subscribe(i) ==
    /\ LET observable == observables[i]
           o == Len(observers) + 1
           attached == Append(observers, NewObserver(i, FALSE, now))
       IN  IF observable.kind = "error"
           THEN /\ observers' = Notify(attached, o, "error", ErrorValue(observable.error), now)
                /\ UNCHANGED <<openSubscriptions, timers>>
           ELSE /\ observers' = attached
                /\ openSubscriptions' = IF observable.key # NoKey
                                        THEN MapSet(openSubscriptions, observable.key, o)
                                        ELSE openSubscriptions
                /\ timers' = timers \o forwardResponseToObserver(o, observable.mock,
                                                                 observable.complete, now)
    /\ threw' = NoError
    /\ UNCHANGED <<wildcardMatches, regularMatches, queries, mutations, subscriptions,
                   pendingResponses, lastResponse, resolvedResponses,
                   suppressMissingMockWarnings, addTypename, observables, now, warnings,
                   pushes, registered, waits, act, acts>>

\* (mutation) the completion is sent before the value
TimerCallbackCompleteFirst(obsvs, timer) ==
    LET completed == IF timer.complete
                     THEN Notify(obsvs, timer.observer, "complete", NoValue, timer.due)
                     ELSE obsvs
    IN  Notify(completed, timer.observer, timer.type, timer.value, timer.due)

\* the callback forwardResponseToObserver hands to setTimeout: the value or
\* the error is sent, then the completion when complete is set
TimerCallback(obsvs, timer) ==
    LET sent == Notify(obsvs, timer.observer, timer.type, timer.value, timer.due)
    IN  IF timer.complete
        THEN Notify(sent, timer.observer, "complete", NoValue, timer.due)
        ELSE sent

\* the pending timer that expires first
NextTimer ==
    CHOOSE i \in 1..Len(timers) :
        \A j \in 1..Len(timers) :
            \/ timers[i].due < timers[j].due
            \/ timers[i].due = timers[j].due /\ i <= j

RemoveAt(s, i) == [j \in 1..(Len(s) - 1) |-> IF j < i THEN s[j] ELSE s[j + 1]]

\* a promise returned by a waitFor* call: the promises it is waiting for, and
\* whether it waits for them, for its request window, or is resolved; nops
\* is the number of operations submitted before the call
NewWait(kind, awaiting, requestWindow, nops) ==
    [kind |-> kind, awaiting |-> awaiting, requestWindow |-> requestWindow,
     pc |-> IF awaiting = {} THEN "resolved" ELSE "awaiting",
     rounds |-> IF awaiting = {} THEN 0 ELSE 1, nops |-> nops]

\* (mutation) the call waits for every pending promise
LastResponseAwaitedAll(last, pending, resolved) == pending

\* the promises a waitForLastResponse call waits for: lastResponse, unless
\* it is undefined or already resolved
LastResponseAwaited(last, pending, resolved) ==
    IF last = 0 THEN {} ELSE {last} \ resolved

\* (mutation) a wait goes on for the promises pending now
UnsettledLive(awaiting, pending, resolved) == pending

\* the promises of the array handed to Promise.all, or the promise handed
\* back by waitForLastResponse, that are not resolved yet
Unsettled(awaiting, pending, resolved) == awaiting \ resolved

\* the reactions to the resolution of a response promise: a wait whose
\* promises are all resolved is resolved, or goes on to delay(requestWindow)
PromiseReactions(ws, pending, resolved) ==
    [w \in 1..Len(ws) |->
        IF ws[w].pc = "awaiting"
              /\ Unsettled(ws[w].awaiting, pending, resolved) = {}
        THEN [ws[w] EXCEPT !.pc = IF ws[w].kind = "recursive" THEN "window" ELSE "resolved"]
        ELSE ws[w]]

\* await delay(requestWindow): the timers set by the waits that went on
WindowTimer(w, requestWindow, t) ==
    [observer |-> 0, type |-> "window", value |-> [id |-> w, from |-> "wait", args |-> Undefined],
     complete |-> FALSE, due |-> t + requestWindow]

RECURSIVE WindowTimers(_, _, _, _)
WindowTimers(before, after, w, t) ==
    IF w > Len(before) THEN <<>>
    ELSE (IF before[w].pc = "awaiting" /\ after[w].pc = "window"
          THEN <<WindowTimer(w, before[w].requestWindow, t)>>
          ELSE <<>>) \o WindowTimers(before, after, w + 1, t)

\* (mutation) the wait is over after its request window, whatever is pending
runWaitOnce(w, pending) == [w EXCEPT !.pc = "resolved", !.awaiting = {}]

\* runWait of waitForAllResponsesRecursively, entered again after the window
runWait(w, pending) ==
    IF pending = {}
    THEN [w EXCEPT !.pc = "resolved", !.awaiting = {}]
    ELSE [w EXCEPT !.pc = "awaiting", !.awaiting = pending, !.rounds = @ + 1]

\* the callback of the timer that expires first runs, and the promise
\* reactions that follow it
FireTimer ==
    /\ timers # <<>>
    /\ LET i == NextTimer
           timer == timers[i]
       IN  IF timer.type = "window"
           THEN /\ waits' = [waits EXCEPT ![timer.value.id] = runWait(@, pendingResponses)]
                /\ timers' = RemoveAt(timers, i)
                /\ now' = timer.due
                /\ UNCHANGED <<observers, resolvedResponses, pendingResponses, acts>>
           ELSE LET o == timer.observer
                    \* the listener of setLastResponsePromiseFromObservable
                    resolves == observers[o].internal /\ timer.type = "next"
                                    /\ ~observers[o].closed
                    resolved == IF resolves THEN resolvedResponses \cup {observers[o].obs}
                                ELSE resolvedResponses
                    pending == IF resolves THEN pendingResponses \ {observers[o].obs}
                               ELSE pendingResponses
                    reacted == PromiseReactions(waits, pending, resolved)
                IN  /\ observers' = TimerCallback(observers, timer)
                    /\ resolvedResponses' = resolved
                    /\ pendingResponses' = pending
                    /\ waits' = reacted
                    /\ timers' = RemoveAt(timers, i) \o WindowTimers(waits, reacted, 1, timer.due)
                    /\ now' = timer.due
                    /\ acts' = acts (+) TimerActs(act, timer)
    /\ threw' = NoError
    /\ UNCHANGED <<wildcardMatches, regularMatches, queries, mutations, subscriptions,
                   lastResponse, suppressMissingMockWarnings, addTypename, openSubscriptions,
                   observables, warnings, pushes, registered, act>>

\* the callback of the timer that expires first runs for an observer of the
\* caller whose next listener calls link.request(op) before it returns: the
\* operation is submitted inside observer.next, before observer.complete
FireTimerWithRequest(query, variables) ==
    /\ timers # <<>>
    /\ timers[NextTimer].type = "next"
    /\ ~observers[timers[NextTimer].observer].internal
    /\ ~observers[timers[NextTimer].observer].closed
    /\ query.operation # "subscription"
    /\ LET i == NextTimer
           timer == timers[i]
           op == [query |-> query, variables |-> variables, context |-> "ctx"]
           match == MatchOperation(wildcardMatches, regularMatches, addTypename, op)
           nreg == Len(registered)
           missing == match.mode = "none"
           incomplete == ~missing /\ IsIncomplete(match.mock)
           observable ==
               IF missing THEN ErrorObservable(op, "NoMocksMatched", match, nreg)
               ELSE IF incomplete THEN ErrorObservable(op, "MustProvide", match, nreg)
               ELSE ForwardObservable(op, match, TRUE, NoKey, nreg)
           tracked == Tracked(FALSE, observable)
           promise == Len(observables) + 1
           tracker == Len(observers) + 1
           delivered == TimerCallback(observers, timer)
       IN  /\ mutations' = IF query.operation = "mutation"
                           THEN Append(mutations, toStoredOperation(op))
                           ELSE mutations
           /\ queries' = IF query.operation # "mutation"
                         THEN Append(queries, toStoredOperation(op))
                         ELSE queries
           /\ wildcardMatches' = match.wildcardMatches
           /\ regularMatches' = match.regularMatches
           /\ warnings' = IF missing
                          THEN warnings + MissingMockWarning(suppressMissingMockWarnings)
                          ELSE warnings
           /\ observables' = Append(observables, observable)
           /\ observers' = IF tracked
                           THEN Append(delivered, NewObserver(promise, TRUE, timer.due))
                           ELSE delivered
           /\ timers' = IF tracked
                        THEN RemoveAt(timers, i)
                                 \o forwardResponseToObserver(tracker, match.mock, TRUE,
                                                              timer.due)
                        ELSE RemoveAt(timers, i)
           /\ lastResponse' = IF tracked THEN promise ELSE lastResponse
           /\ pendingResponses' = IF tracked THEN pendingResponses \cup {promise}
                                  ELSE pendingResponses
           /\ now' = timer.due
           /\ acts' = acts (+) TimerActs(act, timer)
    /\ threw' = NoError
    /\ UNCHANGED <<subscriptions, resolvedResponses, suppressMissingMockWarnings, addTypename,
                   openSubscriptions, pushes, registered, waits, act>>

\* link.waitForLastResponse()
WaitForLastResponse ==
    /\ waits' = Append(waits,
                       NewWait("last",
                               LastResponseAwaited(lastResponse, pendingResponses,
                                                   resolvedResponses),
                               0, Len(observables)))
    \* lastResponse ? this.act(() => this.lastResponse) : Promise.resolve()
    /\ acts' = IF lastResponse # 0 THEN acts (+) SetToBag({Invocation(act, <<>>)}) ELSE acts
    /\ threw' = NoError
    /\ UNCHANGED <<wildcardMatches, regularMatches, queries, mutations, subscriptions,
                   pendingResponses, lastResponse, resolvedResponses,
                   suppressMissingMockWarnings, addTypename, openSubscriptions, observables,
                   observers, timers, now, warnings, pushes, registered, act>>

\* link.waitForAllResponses()
WaitForAllResponses ==
    /\ waits' = Append(waits, NewWait("all", pendingResponses, 0, Len(observables)))
    /\ acts' = acts (+) SetToBag({Invocation(act, <<>>)})
    /\ threw' = NoError
    /\ UNCHANGED <<wildcardMatches, regularMatches, queries, mutations, subscriptions,
                   pendingResponses, lastResponse, resolvedResponses,
                   suppressMissingMockWarnings, addTypename, openSubscriptions, observables,
                   observers, timers, now, warnings, pushes, registered, act>>

\* link.waitForAllResponsesRecursively(requestWindow)
WaitForAllResponsesRecursively(requestWindow) ==
    /\ waits' = Append(waits,
                       NewWait("recursive", pendingResponses, requestWindow,
                               Len(observables)))
    /\ acts' = acts (+) SetToBag({Invocation(act, <<>>)})
    /\ threw' = NoError
    /\ UNCHANGED <<wildcardMatches, regularMatches, queries, mutations, subscriptions,
                   pendingResponses, lastResponse, resolvedResponses,
                   suppressMissingMockWarnings, addTypename, openSubscriptions, observables,
                   observers, timers, now, warnings, pushes, registered, act>>

\* (mutation) a value for a key with no open subscription is dropped silently
SendToKeyQuiet(key, method) ==
    IF ~MapHas(openSubscriptions, key)
    THEN /\ threw' = NoError
         /\ UNCHANGED <<observers, pushes, acts>>
    ELSE /\ observers' = Notify(observers, openSubscriptions[key], "next",
                                PushValue(pushes + 1), now)
         /\ acts' = acts (+) SetToBag({Invocation(act, <<Call(openSubscriptions[key], "next",
                                                                  PushValue(pushes + 1))>>)})
         /\ pushes' = pushes + 1
         /\ threw' = NoError

\* a value is handed to the open subscription registered under key, or the
\* method throws
SendToKey(key, method) ==
    IF ~MapHas(openSubscriptions, key)
    THEN /\ threw' = method
         /\ UNCHANGED <<observers, pushes, acts>>
    ELSE /\ observers' = Notify(observers, openSubscriptions[key], "next",
                                PushValue(pushes + 1), now)
         /\ acts' = acts (+) SetToBag({Invocation(act, <<Call(openSubscriptions[key], "next",
                                                                  PushValue(pushes + 1))>>)})
         /\ pushes' = pushes + 1
         /\ threw' = NoError

\* (mutation) the open subscription is looked up by the document alone
SendSubscriptionResultByDocument(query, variables) ==
    /\ SendToKey(queryToString(addTypename, query), "sendSubscriptionResult")
    /\ UNCHANGED <<wildcardMatches, regularMatches, queries, mutations, subscriptions,
                   pendingResponses, lastResponse, resolvedResponses,
                   suppressMissingMockWarnings, addTypename, openSubscriptions, observables,
                   timers, now, warnings, registered, waits, act>>

\* link.sendSubscriptionResult(request, variables, response)
SendSubscriptionResult(query, variables) ==
    /\ SendToKey(queryAndVariablesToString(addTypename, query, variables),
                 "sendSubscriptionResult")
    /\ UNCHANGED <<wildcardMatches, regularMatches, queries, mutations, subscriptions,
                   pendingResponses, lastResponse, resolvedResponses,
                   suppressMissingMockWarnings, addTypename, openSubscriptions, observables,
                   timers, now, warnings, registered, waits, act>>

\* link.sendWildcardSubscriptionResult(request, response)
SendWildcardSubscriptionResult(query) ==
    /\ SendToKey(queryToString(addTypename, query), "sendWildcardSubscriptionResult")
    /\ UNCHANGED <<wildcardMatches, regularMatches, queries, mutations, subscriptions,
                   pendingResponses, lastResponse, resolvedResponses,
                   suppressMissingMockWarnings, addTypename, openSubscriptions, observables,
                   timers, now, warnings, registered, waits, act>>

\* (mutation) the closed subscription stays registered
CloseSubscriptionKeeping(query) ==
    /\ LET cacheKey == queryToString(addTypename, query)
       IN  IF ~MapHas(openSubscriptions, cacheKey)
           THEN /\ threw' = "closeSubscription"
                /\ UNCHANGED <<observers, openSubscriptions>>
           ELSE /\ observers' = Notify(observers, openSubscriptions[cacheKey], "complete",
                                       CloseValue, now)
                /\ openSubscriptions' = openSubscriptions
                /\ threw' = NoError
    /\ UNCHANGED <<wildcardMatches, regularMatches, queries, mutations, subscriptions,
                   pendingResponses, lastResponse, resolvedResponses,
                   suppressMissingMockWarnings, addTypename, observables, timers, now,
                   warnings, pushes, registered, waits, act, acts>>

\* link.closeSubscription(request)
CloseSubscription(query) ==
    /\ LET cacheKey == queryToString(addTypename, query)
       IN  IF ~MapHas(openSubscriptions, cacheKey)
           THEN /\ threw' = "closeSubscription"
                /\ UNCHANGED <<observers, openSubscriptions>>
           ELSE /\ observers' = Notify(observers, openSubscriptions[cacheKey], "complete",
                                       CloseValue, now)
                /\ openSubscriptions' = MapDelete(openSubscriptions, cacheKey)
                /\ threw' = NoError
    /\ UNCHANGED <<wildcardMatches, regularMatches, queries, mutations, subscriptions,
                   pendingResponses, lastResponse, resolvedResponses,
                   suppressMissingMockWarnings, addTypename, observables, timers, now,
                   warnings, pushes, registered, waits, act, acts>>

\* the value of a last* getter when its log is empty (undefined)
NoStoredOperation == [query |-> Doc("none", "none"), variables |-> Undefined, context |-> "none"]

\* log[log.length - 1]
lastOf(log) == IF log = <<>> THEN NoStoredOperation ELSE log[Len(log)]

\* link.lastQuery
lastQuery == lastOf(queries)

\* link.lastMutation
lastMutation == lastOf(mutations)

\* link.lastSubscription
lastSubscription == lastOf(subscriptions)

\* (mutation) the first operation of the log is compared
lastMatchesFirst(log, typename, request) ==
    /\ log # <<>>
    /\ queryToString(typename, request) = queryToString(typename, log[1].query)

\* !!this.lastX && this.queryToString(request) === this.queryToString(this.lastX.query),
\* lastX being the last element of the log
lastMatches(log, typename, request) ==
    /\ log # <<>>
    /\ queryToString(typename, request) = queryToString(typename, log[Len(log)].query)

\* link.lastQueryMatches(request)
lastQueryMatches(request) == lastMatches(queries, addTypename, request)

\* link.lastMutationMatches(request)
lastMutationMatches(request) == lastMatches(mutations, addTypename, request)

\* link.lastSubscriptionMatches(request)
lastSubscriptionMatches(request) == lastMatches(subscriptions, addTypename, request)

----------------------------------------------------------------------------
(* Inputs *)

QueryDoc == Doc("query", "Q")

MutationDoc == Doc("mutation", "M")

SubscriptionDoc == Doc("subscription", "S")

QueryDoc2 == Doc("query", "Q2")

MutationDoc2 == Doc("mutation", "M2")

SubscriptionDoc2 == Doc("subscription", "S2")

\* the document of QueryDoc written with its __typename selection
QueryDocTyped == [QueryDoc EXCEPT !.selections = <<"f", "__typename">>]

Variables1 == Obj(<< <<"a", "1">> >>)

Variables2 == Obj(<< <<"a", "2">> >>)

\* the variables of an operation that has none
NoVariables == Obj(<<>>)

MatchCounts == {NMUndefined, NMNumber(1), NMNumber(2), NMInfinity}

Payloads == {[result |-> "value", error |-> FALSE],
             [result |-> "none", error |-> TRUE],
             [result |-> "none", error |-> FALSE]}

Delays == {0, 1}

\* the lists of at most n responses built from the given fields; the
\* i-th response of a list has the id i
ResponseLists(n, docs, variables, payloads, counts, delays) ==
    UNION {[1..k -> docs \X variables \X payloads \X counts \X delays] : k \in 0..n}

ToResponses(list) ==
    [i \in 1..Len(list) |->
        Response(i, list[i][1], list[i][2], list[i][3].result, list[i][3].error,
                 list[i][4], list[i][5])]

SubscribeOnce ==
    /\ Cardinality({o \in 1..Len(observers) : ~observers[o].internal}) < MaxListeners
    /\ \E i \in 1..Len(observables) : Subscribe(i)

----------------------------------------------------------------------------
(* SpecMatch, the registry: responses with every kind of match count are  *)
(* registered for one document, as wildcard or for one set of variables,  *)
(* and operations on it are submitted with two sets of variables.         *)

NextMatch ==
    \/ /\ Len(registered) < MaxMocks
       /\ \E v \in {Variables1, MATCH_ANY_PARAMETERS}, n \in MatchCounts :
             AddMockedResponse(QueryDoc, v, "value", FALSE, n, 0)
    \/ /\ Len(observables) < MaxOps
       /\ \E v \in {Variables1, Variables2} : Request(QueryDoc, v)

SpecMatch == Init /\ [][NextMatch]_vars

----------------------------------------------------------------------------
(* SpecKinds, the lookup order for queries and subscriptions: wildcard and *)
(* regular responses that match twice are registered for a query and for a *)
(* subscription, and both are submitted.                                   *)

NextKinds ==
    \/ /\ Len(registered) < MaxMocks
       /\ \E q \in {QueryDoc, SubscriptionDoc}, v \in {Variables1, MATCH_ANY_PARAMETERS} :
             AddMockedResponse(q, v, "value", FALSE, NMNumber(2), 0)
    \/ /\ Len(observables) < MaxOps
       /\ \E q \in {QueryDoc, SubscriptionDoc} : Request(q, Variables1)

SpecKinds == Init /\ [][NextKinds]_vars

----------------------------------------------------------------------------
(* SpecMiss, operations no mock matches: the link is constructed with      *)
(* responses for a query, a mutation or a subscription and with either     *)
(* setting of suppressMissingMockWarnings, operations of the three kinds   *)
(* are submitted, the caller subscribes to the returned Observables and    *)
(* the timers fire.                                                        *)

InitMiss ==
    \E list \in ResponseLists(MaxDeliveryMocks, {QueryDoc, MutationDoc, SubscriptionDoc},
                              {Variables1, MATCH_ANY_PARAMETERS},
                              {[result |-> "value", error |-> FALSE]}, {NMInfinity}, {0}) :
        \E suppress \in BOOLEAN : Constructor(ToResponses(list), suppress)

NextMiss ==
    \/ /\ Len(observables) < MaxDeliveryOps
       /\ \E q \in {QueryDoc, MutationDoc, SubscriptionDoc} : Request(q, Variables1)
    \/ SubscribeOnce
    \/ FireTimer

SpecMiss == InitMiss /\ [][NextMiss]_vars

----------------------------------------------------------------------------
(* Spec, the delivery of queries and mutations: the link is constructed    *)
(* with responses that have a result, an error or neither and a delay,     *)
(* queries and mutations are submitted, the caller subscribes to the       *)
(* returned Observables and the timers fire.                               *)

InitDelivery ==
    \E list \in ResponseLists(MaxDeliveryMocks, {QueryDoc, MutationDoc},
                              {Variables1, MATCH_ANY_PARAMETERS}, Payloads, {NMInfinity},
                              Delays) :
        Constructor(ToResponses(list), FALSE)

Next ==
    \/ /\ Len(observables) < MaxDeliveryOps
       /\ \E q \in {QueryDoc, MutationDoc} : Request(q, Variables1)
    \/ SubscribeOnce
    \/ FireTimer

Spec == InitDelivery /\ [][Next]_vars

----------------------------------------------------------------------------
(* SpecSubscription, the open subscriptions: the link is constructed with  *)
(* responses for a subscription, it is submitted, the caller subscribes,   *)
(* the timers fire, values are sent to the open subscription and it is     *)
(* closed.                                                                 *)

InitSubscription ==
    \E list \in ResponseLists(MaxDeliveryMocks, {SubscriptionDoc},
                              {Variables1, MATCH_ANY_PARAMETERS}, Payloads, {NMInfinity},
                              Delays) :
        Constructor(ToResponses(list), FALSE)

NextSubscription ==
    \/ /\ Len(observables) < MaxDeliveryOps
       /\ Request(SubscriptionDoc, Variables1)
    \/ SubscribeOnce
    \/ FireTimer
    \/ /\ pushes < MaxPushes
       /\ SendSubscriptionResult(SubscriptionDoc, Variables1)
    \/ /\ pushes < MaxPushes
       /\ SendWildcardSubscriptionResult(SubscriptionDoc)
    \/ CloseSubscription(SubscriptionDoc)

SpecSubscription == InitSubscription /\ [][NextSubscription]_vars

----------------------------------------------------------------------------
(* SpecLast, the logs of operations: queries, mutations and subscriptions  *)
(* on two documents each are submitted with two sets of variables to a     *)
(* link without mocks.                                                     *)

LogDocs == {QueryDoc, QueryDoc2, MutationDoc, MutationDoc2, SubscriptionDoc, SubscriptionDoc2}

ProbeDocs == LogDocs \cup {QueryDocTyped}

NextLast ==
    /\ Len(observables) < MaxOps
    /\ \E q \in LogDocs, v \in {Variables1, Variables2} : Request(q, v)

SpecLast == Init /\ [][NextLast]_vars

----------------------------------------------------------------------------
(* SpecChannel, the registry of open subscriptions: the link is            *)
(* constructed with a wildcard response for a subscription, with a regular *)
(* response for it, or with a wildcard response that matches once followed *)
(* by a regular one; the subscription is submitted, the caller subscribes  *)
(* (more than once), the timers fire, and values are sent, with and        *)
(* without variables, and the subscription is closed.                      *)

ChannelResponses ==
    {<<Response(1, SubscriptionDoc, MATCH_ANY_PARAMETERS, "value", FALSE, NMInfinity, 0)>>,
     <<Response(1, SubscriptionDoc, Variables1, "value", FALSE, NMInfinity, 0)>>,
     <<Response(1, SubscriptionDoc, MATCH_ANY_PARAMETERS, "value", FALSE, NMUndefined, 0),
       Response(2, SubscriptionDoc, Variables1, "value", FALSE, NMInfinity, 0)>>}

InitChannel == \E mockedResponses \in ChannelResponses : Constructor(mockedResponses, FALSE)

NextChannel ==
    \/ /\ Len(observables) < MaxDeliveryOps
       /\ Request(SubscriptionDoc, Variables1)
    \/ /\ Len(observers) < MaxChannels
       /\ \E i \in 1..Len(observables) : Subscribe(i)
    \/ FireTimer
    \/ /\ pushes < MaxPushes
       /\ \E v \in {Variables1, Undefined} : SendSubscriptionResult(SubscriptionDoc, v)
    \/ /\ pushes < MaxPushes
       /\ SendWildcardSubscriptionResult(SubscriptionDoc)
    \/ CloseSubscription(SubscriptionDoc)

SpecChannel == InitChannel /\ [][NextChannel]_vars

----------------------------------------------------------------------------
(* SpecWait, the waitFor* calls: the link is constructed with a slow and a  *)
(* fast response with a result, a response with an error and a response    *)
(* with neither, queries and mutations that match them are submitted, the  *)
(* waitFor* methods are called and the timers fire.  The promises of the   *)
(* link are fed by its own subscription to the returned Observable, so the *)
(* caller's subscriptions are left out.                                    *)

WaitResponses ==
    <<Response(1, QueryDoc, Variables1, "value", FALSE, NMInfinity, 1),
      Response(2, QueryDoc, Variables2, "value", FALSE, NMInfinity, 0),
      Response(3, MutationDoc, Variables1, "none", TRUE, NMInfinity, 0),
      Response(4, MutationDoc, Variables2, "none", FALSE, NMInfinity, 0)>>

RequestWindows == {0, 1}

InitWait == Constructor(WaitResponses, FALSE)

NextWait ==
    \/ /\ Len(observables) < MaxWaitOps
       /\ \E q \in {QueryDoc, MutationDoc}, v \in {Variables1, Variables2} : Request(q, v)
    \/ FireTimer
    \/ /\ Len(waits) < MaxWaits
       /\ WaitForLastResponse
    \/ /\ Len(waits) < MaxWaits
       /\ WaitForAllResponses
    \/ /\ Len(waits) < MaxWaits
       /\ \E requestWindow \in RequestWindows : WaitForAllResponsesRecursively(requestWindow)

SpecWait == InitWait /\ [][NextWait]_vars

\* setTimeout callbacks are run by the event loop: a pending timer fires
SpecWaitFair == SpecWait /\ WF_vars(FireTimer)

----------------------------------------------------------------------------
(* SpecLog, the operations the link logs and tracks: the link is           *)
(* constructed with a response with a result for a query, a response with  *)
(* an error and a response with neither for a mutation, and a response    *)
(* for a subscription; operations of the three kinds are submitted, with   *)
(* variables no response is registered for too, the caller subscribes and  *)
(* the timers fire.                                                        *)

TrackResponses ==
    <<Response(1, QueryDoc, Variables1, "value", FALSE, NMInfinity, 0),
      Response(2, MutationDoc, Variables1, "none", TRUE, NMInfinity, 1),
      Response(3, MutationDoc, Variables2, "none", FALSE, NMInfinity, 0),
      Response(4, SubscriptionDoc, Variables1, "value", FALSE, NMInfinity, 0)>>

InitTrack == Constructor(TrackResponses, FALSE)

NextLog ==
    \/ /\ Len(observables) < MaxWaitOps
       /\ \E q \in {QueryDoc, MutationDoc, SubscriptionDoc}, v \in {Variables1, Variables2} :
             Request(q, v)
    \/ SubscribeOnce
    \/ FireTimer

SpecLog == InitTrack /\ [][NextLog]_vars

----------------------------------------------------------------------------
(* SpecTrack, the promises of the link and the caller's observers: the     *)
(* link is constructed as for SpecLog, the query and the subscription are  *)
(* submitted with variables that match and with variables that do not, the *)
(* caller subscribes, waitForLastResponse and waitForAllResponses are      *)
(* called and the timers fire.                                             *)

NextTrack ==
    \/ /\ Len(observables) < MaxWaitOps
       /\ \E q \in {QueryDoc, SubscriptionDoc}, v \in {Variables1, Variables2} : Request(q, v)
    \/ SubscribeOnce
    \/ FireTimer
    \/ /\ Len(waits) < MaxWaits
       /\ WaitForLastResponse
    \/ /\ Len(waits) < MaxWaits
       /\ WaitForAllResponses

SpecTrack == InitTrack /\ [][NextTrack]_vars

----------------------------------------------------------------------------
(* SpecQueue, the queues of the registry: the link is constructed with     *)
(* responses, more are registered later, for two documents as wildcard and *)
(* for one of them with a set of variables, with and without a match       *)
(* count; the wildcard responses of a document are removed and queries on  *)
(* it are submitted with two sets of variables.                            *)

QueueRequests ==
    {[query |-> QueryDoc, variables |-> MATCH_ANY_PARAMETERS],
     [query |-> QueryDoc2, variables |-> MATCH_ANY_PARAMETERS],
     [query |-> QueryDoc, variables |-> Variables1]}

QueueCounts == {NMUndefined, NMNumber(2)}

InitQueue ==
    \E list \in [1..MaxDeliveryMocks -> QueueRequests \X QueueCounts] :
        Constructor([i \in 1..MaxDeliveryMocks |->
                        Response(i, list[i][1].query, list[i][1].variables, "value", FALSE,
                                 list[i][2], 0)],
                    FALSE)

NextQueue ==
    \/ /\ Len(registered) < MaxMocks
       /\ \E r \in QueueRequests, n \in QueueCounts :
             AddMockedResponse(r.query, r.variables, "value", FALSE, n, 0)
    \/ /\ Len(observables) < MaxQueueOps
       /\ \E v \in {Variables1, Variables2} : Request(QueryDoc, v)
    \/ RemoveWildcardMockedResponse(QueryDoc)

SpecQueue == InitQueue /\ [][NextQueue]_vars

----------------------------------------------------------------------------
(* SpecCount, the match counts: responses with every kind of match count   *)
(* are registered for one document, as wildcard or for one set of          *)
(* variables, one at a time or the same object literal twice in one call,  *)
(* and operations on the document are submitted.                           *)

CountCounts == {NMUndefined, NMNumber(1), NMNumber(2), NMInfinity}

NextCount ==
    \/ /\ Len(registered) < MaxMocks
       /\ \E v \in {Variables1, MATCH_ANY_PARAMETERS}, n \in CountCounts :
             AddMockedResponse(QueryDoc, v, "value", FALSE, n, 0)
    \/ /\ Len(registered) + 1 < MaxMocks
       /\ \E v \in {Variables1, MATCH_ANY_PARAMETERS}, n \in CountCounts :
             AddMockedResponseTwice(QueryDoc, v, "value", FALSE, n, 0)
    \/ /\ Len(observables) < MaxQueueOps
       /\ Request(QueryDoc, Variables1)

SpecCount == Init /\ [][NextCount]_vars

----------------------------------------------------------------------------
(* SpecProducer, results that are functions of the variables: the link is  *)
(* constructed with one response for a query, wildcard or regular, whose   *)
(* result is a function or a value; queries are submitted with two sets of *)
(* variables, the caller subscribes and the timers fire.                   *)

InitProducer ==
    \E variables \in {MATCH_ANY_PARAMETERS, Variables1}, result \in {"function", "value"} :
        Constructor(<<Response(1, QueryDoc, variables, result, FALSE, NMInfinity, 0)>>, FALSE)

NextProducer ==
    \/ /\ Len(observables) < MaxQueueOps
       /\ \E v \in {Variables1, Variables2} : Request(QueryDoc, v)
    \/ SubscribeOnce
    \/ FireTimer

SpecProducer == InitProducer /\ [][NextProducer]_vars

----------------------------------------------------------------------------
(* SpecReplace, subscriptions opened under one key: the link is            *)
(* constructed with a wildcard or a regular response for a subscription    *)
(* that matches any number of times, the subscription is submitted more    *)
(* than once with the same variables, the caller subscribes to the         *)
(* returned Observables, the timers fire, values are sent and the          *)
(* subscription is closed.                                                 *)

InitReplace ==
    \E variables \in {MATCH_ANY_PARAMETERS, Variables1} :
        Constructor(<<Response(1, SubscriptionDoc, variables, "value", FALSE, NMInfinity, 0)>>,
                    FALSE)

NextReplace ==
    \/ /\ Len(observables) < MaxQueueOps
       /\ Request(SubscriptionDoc, Variables1)
    \/ /\ Len(observers) < MaxChannels
       /\ \E i \in 1..Len(observables) : Subscribe(i)
    \/ FireTimer
    \/ /\ pushes < MaxPushes
       /\ SendSubscriptionResult(SubscriptionDoc, Variables1)
    \/ /\ pushes < MaxPushes
       /\ SendWildcardSubscriptionResult(SubscriptionDoc)
    \/ CloseSubscription(SubscriptionDoc)

SpecReplace == InitReplace /\ [][NextReplace]_vars

----------------------------------------------------------------------------
(* SpecRemove, the removal of wildcard responses: the link is constructed  *)
(* with two wildcard responses for a query, with a count and without an    *)
(* end, a regular response for it, a wildcard response for a second query  *)
(* and a wildcard response for a subscription; the query is submitted     *)
(* with two sets of variables and the subscription with one, the caller    *)
(* subscribes, the subscription is closed, and the wildcard responses of   *)
(* the query, of the subscription and of a mutation that has none are      *)
(* removed, all within one tick: no timer fires.                           *)

RemoveResponses ==
    <<Response(1, QueryDoc, MATCH_ANY_PARAMETERS, "value", FALSE, NMNumber(2), 0),
      Response(2, QueryDoc, MATCH_ANY_PARAMETERS, "value", FALSE, NMInfinity, 0),
      Response(3, QueryDoc, Variables1, "value", FALSE, NMUndefined, 0),
      Response(4, QueryDoc2, MATCH_ANY_PARAMETERS, "value", FALSE, NMUndefined, 0),
      Response(5, SubscriptionDoc, MATCH_ANY_PARAMETERS, "value", FALSE, NMInfinity, 0)>>

RemoveDocs == {QueryDoc, SubscriptionDoc, MutationDoc}

InitRemove == Constructor(RemoveResponses, FALSE)

NextRemove ==
    \/ /\ Len(observables) < MaxQueueOps
       /\ \/ \E v \in {Variables1, Variables2} : Request(QueryDoc, v)
          \/ Request(SubscriptionDoc, Variables1)
    \/ SubscribeOnce
    \/ CloseSubscription(SubscriptionDoc)
    \/ \E q \in RemoveDocs : RemoveWildcardMockedResponse(q)

SpecRemove == InitRemove /\ [][NextRemove]_vars

----------------------------------------------------------------------------
(* SpecKeys, the keys of regular responses and of open subscriptions: the  *)
(* link is constructed with a regular response for a subscription,         *)
(* registered without variables, with none, with one, or with two          *)
(* variables written in either order; the subscription is                  *)
(* submitted with such variables, the caller subscribes, the timers fire   *)
(* and values are sent with such variables.                                *)

\* {a: '1', b: '2'} and the same object built in the other order
VariablesAB == Obj(<< <<"a", "1">>, <<"b", "2">> >>)

VariablesBA == Obj(<< <<"b", "2">>, <<"a", "1">> >>)

\* {a: '1', b: '1'}
VariablesAB1 == Obj(<< <<"a", "1">>, <<"b", "1">> >>)

\* the variables of a request (undefined when left out)
KeyVariables == {Undefined, NoVariables, VariablesAB, VariablesBA, VariablesAB1, Variables1}

\* the variables of an operation: an object, empty when it has none
OperationVariables == KeyVariables \ {Undefined}

InitKeys ==
    \E list \in [1..MaxDeliveryMocks -> KeyVariables] :
        Constructor([i \in 1..MaxDeliveryMocks |->
                        Response(i, SubscriptionDoc, list[i], "value", FALSE, NMInfinity, 0)],
                    FALSE)

NextKeys ==
    \/ /\ Len(observables) < MaxDeliveryOps
       /\ \E v \in OperationVariables : Request(SubscriptionDoc, v)
    \/ SubscribeOnce
    \/ FireTimer
    \/ /\ pushes < MaxDeliveryOps
       /\ \E v \in KeyVariables : SendSubscriptionResult(SubscriptionDoc, v)

SpecKeys == InitKeys /\ [][NextKeys]_vars

----------------------------------------------------------------------------
(* SpecAct, the option act: the link is constructed with or without an act *)
(* function and with a response with a result for a query, a response with *)
(* an error for a mutation, a regular response for a subscription and a    *)
(* wildcard response for a second subscription; they are submitted, the    *)
(* caller subscribes, the timers fire and values are sent to the open      *)
(* subscriptions.                                                          *)

ActResponses ==
    <<Response(1, QueryDoc, Variables1, "value", FALSE, NMInfinity, 0),
      Response(2, MutationDoc, Variables1, "none", TRUE, NMInfinity, 1),
      Response(3, SubscriptionDoc, Variables1, "value", FALSE, NMInfinity, 0),
      Response(4, SubscriptionDoc2, MATCH_ANY_PARAMETERS, "value", FALSE, NMInfinity, 0)>>

\* options.act ?? callFunction
Hooks == {"callFunction", "act"}

InitAct == \E hook \in Hooks : ConstructorWith(ActResponses, FALSE, hook)

NextAct ==
    \/ /\ Len(observables) < MaxWaitOps
       /\ \E q \in {QueryDoc, MutationDoc, SubscriptionDoc, SubscriptionDoc2} :
             Request(q, Variables1)
    \/ SubscribeOnce
    \/ FireTimer
    \/ /\ pushes < MaxDeliveryOps
       /\ SendSubscriptionResult(SubscriptionDoc, Variables1)
    \/ /\ pushes < MaxDeliveryOps
       /\ SendWildcardSubscriptionResult(SubscriptionDoc2)

SpecAct == InitAct /\ [][NextAct]_vars

----------------------------------------------------------------------------
(* SpecReentrant, operations submitted from inside a listener: the link is *)
(* constructed with two responses for one query, both wildcard, both       *)
(* regular, or a wildcard one followed by a regular one, the first of      *)
(* which matches twice; the query is submitted, the caller subscribes, the *)
(* timers fire, and the caller's listener submits the query again while it *)
(* is handed the result.                                                   *)

ReentrantResponses ==
    {<<Response(1, QueryDoc, MATCH_ANY_PARAMETERS, "function", FALSE, NMNumber(2), 0),
       Response(2, QueryDoc, MATCH_ANY_PARAMETERS, "value", FALSE, NMUndefined, 0)>>,
     <<Response(1, QueryDoc, Variables1, "function", FALSE, NMNumber(2), 0),
       Response(2, QueryDoc, Variables1, "value", FALSE, NMUndefined, 0)>>,
     <<Response(1, QueryDoc, MATCH_ANY_PARAMETERS, "value", FALSE, NMNumber(2), 0),
       Response(2, QueryDoc, Variables1, "value", FALSE, NMNumber(2), 0)>>}

InitReentrant ==
    \E mockedResponses \in ReentrantResponses : Constructor(mockedResponses, FALSE)

NextReentrant ==
    \/ /\ Len(observables) < MaxOps
       /\ Request(QueryDoc, Variables1)
    \/ SubscribeOnce
    \/ FireTimer
    \/ /\ Len(observables) < MaxOps
       /\ FireTimerWithRequest(QueryDoc, Variables1)

SpecReentrant == InitReentrant /\ [][NextReentrant]_vars

----------------------------------------------------------------------------
(* SpecIncomplete, responses with neither result nor error: the link is    *)
(* constructed with such a response for a query or a mutation, wildcard or *)
(* regular, that matches once or twice, followed by a response with a      *)
(* result for the same key; the query and the mutation are submitted, the  *)
(* caller subscribes and the timers fire.                                  *)

IncompleteCounts == {NMUndefined, NMNumber(1), NMNumber(2)}

InitIncomplete ==
    \E query \in {QueryDoc, MutationDoc}, variables \in {MATCH_ANY_PARAMETERS, Variables1},
       nMatches \in IncompleteCounts :
        Constructor(<<Response(1, query, variables, "none", FALSE, nMatches, 0),
                      Response(2, query, variables, "value", FALSE, NMInfinity, 0)>>,
                    FALSE)

NextIncomplete ==
    \/ /\ Len(observables) < MaxQueueOps
       /\ \E q \in {QueryDoc, MutationDoc} : Request(q, Variables1)
    \/ SubscribeOnce
    \/ FireTimer

SpecIncomplete == InitIncomplete /\ [][NextIncomplete]_vars

----------------------------------------------------------------------------
(* SpecListener, the observers of one Observable: the link is constructed  *)
(* with a response for a query, wildcard or regular, that matches twice,   *)
(* whose result is a function or a value, with or without a delay; the     *)
(* query is submitted, the caller subscribes to the returned Observable    *)
(* more than once and the timers fire.                                     *)

InitListener ==
    \E variables \in {MATCH_ANY_PARAMETERS, Variables1}, result \in {"function", "value"},
       delay \in Delays :
        Constructor(<<Response(1, QueryDoc, variables, result, FALSE, NMNumber(2), delay)>>,
                    FALSE)

NextListener ==
    \/ /\ Len(observables) < MaxQueueOps
       /\ Request(QueryDoc, Variables1)
    \/ /\ Cardinality({o \in 1..Len(observers) : ~observers[o].internal}) < MaxChannels
       /\ \E i \in 1..Len(observables) : Subscribe(i)
    \/ FireTimer

SpecListener == InitListener /\ [][NextListener]_vars

----------------------------------------------------------------------------
(* Vocabulary of the properties *)

Ops == 1..Len(observables)

WildcardKeyOfOp(i) == queryToString(addTypename, observables[i].op.query)

RegularKeyOfOp(i) ==
    queryAndVariablesToString(addTypename, observables[i].op.query, observables[i].op.variables)

KeyOfResponse(response) ==
    IF isNotWildcard(response)
    THEN queryAndVariablesToString(addTypename, response.request.query,
                                   response.request.variables)
    ELSE queryToString(addTypename, response.request.query)

\* the operations before the i-th that the response id served
ServedBefore(id, i) == {j \in 1..(i - 1) : observables[j].mode # "none" /\ observables[j].mock.id = id}

Served(id) == ServedBefore(id, Len(observables) + 1)

\* the response r can still serve the i-th operation: it has served fewer
\* operations than its match count (one when nMatches is omitted)
HasMatchesLeft(r, i) ==
    LET nm == registered[r].response.nMatches
        used == Cardinality(ServedBefore(r, i))
    IN  CASE nm.k = "infinity" -> TRUE
          [] nm.k = "number" -> used < nm.n
          [] OTHER -> used < 1

\* the responses registered for key before the i-th operation was submitted,
\* not removed before it, that can still serve it
Candidates(i, wildcard, key) ==
    {r \in 1..observables[i].nreg :
        /\ isNotWildcard(registered[r].response) = ~wildcard
        /\ KeyOfResponse(registered[r].response) = key
        /\ ~(registered[r].removed /\ registered[r].removedAt < i)
        /\ HasMatchesLeft(r, i)}

Min(S) == CHOOSE x \in S : \A y \in S : x <= y

QueuedIds(map) == UNION {{map[k][j].id : j \in 1..Len(map[k])} : k \in DOMAIN map}

RequestStep == Len(observables') = Len(observables) + 1

NewOp == Len(observables) + 1

----------------------------------------------------------------------------
(* Properties of the matching *)

\* C1: when a request is submitted while the wildcard queue of its document
\* is non-empty, the operation (query or subscription) is served by the head
\* of that wildcard queue and the regular queues are not consulted (left
\* unchanged), also when a regular mock is registered for its document and
\* variables; a regular mock serves only when no wildcard queue exists.
C1_WildcardPrecedence ==
    [][RequestStep =>
        LET o == observables'[NewOp]
            wk == queryToString(addTypename, o.op.query)
        IN  /\ (MapHas(wildcardMatches, wk) /\ wildcardMatches[wk] # <<>>)
                => /\ o.mode = "wildcard"
                   /\ o.mock.id = wildcardMatches[wk][1].id
                   /\ regularMatches' = regularMatches
            /\ o.mode = "regular" => ~MapHas(wildcardMatches, wk)]_vars

\* C1 witness: an operation was served by a wildcard mock although a regular
\* mock for its document and variables was registered before it and is
\* still queued.
C1_Witness ==
    \E i \in Ops :
        /\ observables[i].mode = "wildcard"
        /\ MapHas(regularMatches, RegularKeyOfOp(i))
        /\ \E r \in 1..observables[i].nreg :
              /\ isNotWildcard(registered[r].response)
              /\ KeyOfResponse(registered[r].response) = RegularKeyOfOp(i)

C3_WildcardMatchCount ==
    \A i \in Ops :
        LET wcands == Candidates(i, TRUE, WildcardKeyOfOp(i))
            rcands == Candidates(i, FALSE, RegularKeyOfOp(i))
        IN  IF wcands # {}
            THEN /\ observables[i].mode = "wildcard"
                 /\ observables[i].mock.id = Min(wcands)
            ELSE /\ observables[i].mode # "wildcard"
                 /\ (observables[i].mode = "none") = (rcands = {})

\* C3 witness: a wildcard mock with nMatches = 2 served two operations with
\* different variables and the third operation on its document got the
\* no-mocks-matched error.
C3_Witness ==
    \E r \in 1..Len(registered) :
        /\ ~isNotWildcard(registered[r].response)
        /\ registered[r].response.nMatches = NMNumber(2)
        /\ \E i, j, k \in Ops :
              /\ i < j /\ j < k
              /\ Served(r) = {i, j}
              /\ observables[i].op.variables # observables[j].op.variables
              /\ WildcardKeyOfOp(k) = KeyOfResponse(registered[r].response)
              /\ observables[k].mode = "none"
              /\ observables[k].error = "NoMocksMatched"

HeadStays(map, mapAfter) ==
    \A k \in DOMAIN map :
        (map[k] # <<>> /\ map[k][1].nMatches = NMInfinity)
            => /\ MapHas(mapAfter, k)
               /\ mapAfter[k] # <<>>
               /\ mapAfter[k][1] = map[k][1]

\* C4: a mock with nMatches = Infinity at the head of a wildcard or regular
\* queue is still the head of that queue, unchanged, after every step other
\* than removeWildcardMockedResponse, and a request that reaches its queue is
\* served by it.
C4_InfinityNeverExhausts ==
    [][/\ (\A r \in 1..Len(registered) : registered'[r].removed = registered[r].removed)
            => HeadStays(wildcardMatches, wildcardMatches')
       /\ HeadStays(regularMatches, regularMatches')
       /\ RequestStep =>
            LET o == observables'[NewOp]
                wk == queryToString(addTypename, o.op.query)
                rk == queryAndVariablesToString(addTypename, o.op.query, o.op.variables)
            IN  /\ (MapHas(wildcardMatches, wk) /\ wildcardMatches[wk][1].nMatches = NMInfinity)
                    => (o.mode = "wildcard" /\ o.mock.id = wildcardMatches[wk][1].id)
                /\ (/\ ~MapHas(wildcardMatches, wk)
                    /\ MapHas(regularMatches, rk)
                    /\ regularMatches[rk][1].nMatches = NMInfinity)
                    => (o.mode = "regular" /\ o.mock.id = regularMatches[rk][1].id)]_vars

\* C4 witness: one wildcard mock and one regular mock with nMatches = Infinity
\* have each served operations (three between them) and are both still queued.
C4_Witness ==
    /\ Len(observables) = MaxOps
    /\ \E w, r \in 1..Len(registered) :
          /\ ~isNotWildcard(registered[w].response)
          /\ isNotWildcard(registered[r].response)
          /\ registered[w].response.nMatches = NMInfinity
          /\ registered[r].response.nMatches = NMInfinity
          /\ Served(w) # {} /\ Served(r) # {}
          /\ Served(w) \cup Served(r) = Ops
          /\ w \in QueuedIds(wildcardMatches)
          /\ r \in QueuedIds(regularMatches)

----------------------------------------------------------------------------
(* Properties of the delivery *)

IsSubscription(i) == observables[i].op.query.operation = "subscription"

\* the response, as it was registered, that served the i-th operation
ResponseOf(i) == registered[observables[i].mock.id].response

Observers == 1..Len(observers)

Callers == {o \in Observers : ~observers[o].internal}

\* what an observer was sent by the link itself, the values pushed by
\* send*SubscriptionResult and the completion of closeSubscription left out
SelectMockEvents(events) == SelectSeq(events, LAMBDA e : e.value.from \notin {"push", "close"})

ErrorEvent(error, t) == [type |-> "error", value |-> ErrorValue(error), at |-> t]

\* C6: a request for which neither a wildcard queue nor a regular queue
\* exists does not throw, returns an Observable that sends every observer the
\* no-mocks-matched error at once and nothing else, leaves both registries,
\* the timers and the tracked promises unchanged, and logs one warning
\* exactly when suppressMissingMockWarnings is false; no other step logs.
C6_MissYieldsError ==
    [][/\ RequestStep =>
            LET o == observables'[NewOp]
                wk == queryToString(addTypename, o.op.query)
                rk == queryAndVariablesToString(addTypename, o.op.query, o.op.variables)
            IN  IF ~MapHas(wildcardMatches, wk) /\ ~MapHas(regularMatches, rk)
                THEN /\ o.kind = "error" /\ o.error = "NoMocksMatched"
                     /\ threw' = NoError
                     /\ wildcardMatches' = wildcardMatches
                     /\ regularMatches' = regularMatches
                     /\ timers' = timers
                     /\ observers' = observers
                     /\ pendingResponses' = pendingResponses
                     /\ lastResponse' = lastResponse
                     /\ warnings' = warnings + (IF suppressMissingMockWarnings THEN 0 ELSE 1)
                ELSE warnings' = warnings
       /\ ~RequestStep => warnings' = warnings
       /\ \A o \in 1..Len(observers') :
            observables'[observers'[o].obs].mode = "none"
                => /\ ~observers'[o].internal
                   /\ observers'[o].closed
                   /\ observers'[o].events = <<ErrorEvent("NoMocksMatched", observers'[o].since)>>
      ]_vars

\* C6 witness: a subscription matched no mock of a link that holds a response
\* for another document, the caller subscribed and was sent the error, and
\* the warning was logged.
C6_Witness ==
    /\ warnings = 1
    /\ ~suppressMissingMockWarnings
    /\ Len(registered) > 0
    /\ \E o \in Callers :
          /\ IsSubscription(observers[o].obs)
          /\ observables[observers[o].obs].mode = "none"
          /\ observers[o].events = <<ErrorEvent("NoMocksMatched", observers[o].since)>>

\* C7: a query or mutation served by a mock registered with neither result
\* nor error returns an Observable that sends every observer the
\* must-provide error at the moment it subscribes and nothing else; no timer
\* is set for it and no promise is tracked for it.
C7_IncompleteMock ==
    \A i \in Ops :
        (/\ ~IsSubscription(i)
         /\ observables[i].mode # "none"
         /\ ResponseOf(i).result = "none" /\ ~ResponseOf(i).error)
        => /\ observables[i].kind = "error" /\ observables[i].error = "MustProvide"
           /\ i \notin pendingResponses \cup resolvedResponses
           /\ \A t \in 1..Len(timers) : observers[timers[t].observer].obs # i
           /\ \A o \in Observers :
                observers[o].obs = i
                    => /\ ~observers[o].internal
                       /\ observers[o].closed
                       /\ observers[o].events = <<ErrorEvent("MustProvide", observers[o].since)>>

\* C7 witness: a mutation was served by a regular mock without result and
\* error, and its observer was sent the must-provide error.
C7_Witness ==
    \E o \in Callers :
        LET i == observers[o].obs
        IN  /\ observables[i].op.query.operation = "mutation"
            /\ observables[i].mode = "regular"
            /\ ResponseOf(i).result = "none" /\ ~ResponseOf(i).error
            /\ observers[o].events = <<ErrorEvent("MustProvide", observers[o].since)>>

\* what the observer o may have been sent by the delivery of a mock
\* registered with an error: nothing yet, or that error after the delay
ErrorDeliveredOrPending(o) ==
    LET i == observers[o].obs
    IN  SelectMockEvents(observers[o].events) \in
            {<<>>,
             <<[type |-> "error",
                value |-> [id |-> observables[i].mock.id, from |-> "mock", args |-> Undefined],
                at |-> observers[o].since + ResponseOf(i).delay]>>}

\* C8: an observer of an operation served by a mock registered with an error
\* (wildcard or regular) is sent by the delivery nothing but that error, at
\* the delay of the mock after it subscribed.
C8_ErrorPayloadDelivered ==
    \A o \in Callers :
        (/\ observables[observers[o].obs].mode # "none"
         /\ ResponseOf(observers[o].obs).error
         /\ ResponseOf(observers[o].obs).result = "none")
        => ErrorDeliveredOrPending(o)

\* the part of C8 the link keeps: the error of a regular mock
C8_RegularErrorDelivered ==
    \A o \in Callers :
        (/\ observables[observers[o].obs].mode = "regular"
         /\ ResponseOf(observers[o].obs).error
         /\ ResponseOf(observers[o].obs).result = "none")
        => ErrorDeliveredOrPending(o)

\* C9: an observer (the caller's or the link's own) of a query or mutation
\* served by a mock with a result has been sent nothing yet, or exactly the
\* value of that mock followed by the completion, both at the delay of the
\* mock after it subscribed; it is closed from then on.
C9_ValueThenCompletion ==
    \A o \in Observers :
        LET i == observers[o].obs
            t == observers[o].since + observables[i].mock.delay
        IN  (/\ ~IsSubscription(i)
             /\ observables[i].mode # "none"
             /\ ResponseOf(i).result # "none")
            => \/ observers[o].events = <<>> /\ ~observers[o].closed
               \/ /\ observers[o].events =
                        <<[type |-> "next",
                           value |-> [id |-> observables[i].mock.id, from |-> "mock",
                                      args |-> Undefined],
                           at |-> t],
                          [type |-> "complete", value |-> NoValue, at |-> t]>>
                  /\ observers[o].closed

\* C9 witness: the caller's observer of a query was sent the value and then
\* the completion.
C9_Witness ==
    \E o \in Callers :
        /\ observables[observers[o].obs].op.query.operation = "query"
        /\ Len(observers[o].events) = 2
        /\ observers[o].events[1].type = "next"
        /\ observers[o].events[2].type = "complete"

\* the observer o subscribed to a subscription served by a wildcard mock
\* registered with a result
WildcardSubscriber(o) ==
    /\ ~observers[o].internal
    /\ IsSubscription(observers[o].obs)
    /\ observables[observers[o].obs].mode = "wildcard"
    /\ ResponseOf(observers[o].obs).result # "none"

InitialValue(o) ==
    [type |-> "next",
     value |-> [id |-> observables[observers[o].obs].mock.id, from |-> "mock",
                args |-> Undefined],
     at |-> observers[o].since + observables[observers[o].obs].mock.delay]

\* the timer set for the observer o has fired
InitialDelivered(o) == \A t \in 1..Len(timers) : timers[t].observer # o

\* C10: the timer of a subscription served by a wildcard mock sends the
\* observer the initial value and no completion, and leaves the observer
\* open and registered; once the initial value was sent, each
\* sendWildcardSubscriptionResult on the document does not throw and appends
\* its value to what the registered observer has seen (the initial value
\* first, then the values in call order), and leaves it open and registered.
C10_WildcardSubscriptionPush ==
    [][/\ \A q \in {SubscriptionDoc} :
            LET key == queryToString(addTypename, q)
            IN  (/\ SendWildcardSubscriptionResult(q)
                 /\ MapHas(openSubscriptions, key)
                 /\ WildcardSubscriber(openSubscriptions[key])
                 /\ InitialDelivered(openSubscriptions[key]))
                => LET o == openSubscriptions[key]
                   IN  /\ threw' = NoError
                       /\ Cardinality({e \in 1..Len(observers[o].events) :
                              observers[o].events[e] = InitialValue(o)}) = 1
                       /\ observers'[o].events =
                              Append(observers[o].events,
                                     [type |-> "next", value |-> PushValue(pushes + 1),
                                      at |-> now])
                       /\ \A e \in 1..Len(observers'[o].events) :
                              observers'[o].events[e].type = "next"
                       /\ \A e \in 1..Len(observers[o].events) :
                              \/ observers[o].events[e] = InitialValue(o)
                              \/ /\ observers[o].events[e].value.from = "push"
                                 /\ observers[o].events[e].value.id < pushes + 1
                       /\ ~observers'[o].closed
                       /\ openSubscriptions' = openSubscriptions
       /\ (FireTimer /\ WildcardSubscriber(timers[NextTimer].observer))
            => LET o == timers[NextTimer].observer
               IN  /\ ~observers[o].closed
                      => observers'[o].events = Append(observers[o].events, InitialValue(o))
                   /\ observers'[o].closed = observers[o].closed
                   /\ openSubscriptions' = openSubscriptions
      ]_vars

\* C10 witness: the observer of a subscription served by a wildcard mock has
\* seen the initial value and then two values sent with
\* sendWildcardSubscriptionResult, and is still open and registered.
C10_Witness ==
    \E o \in Callers :
        /\ WildcardSubscriber(o)
        /\ Len(observers[o].events) = 3
        /\ observers[o].events[1] = InitialValue(o)
        /\ observers[o].events[2].value = PushValue(1)
        /\ observers[o].events[3].value = PushValue(2)
        /\ ~observers[o].closed
        /\ MapHas(openSubscriptions, observables[observers[o].obs].key)
        /\ openSubscriptions[observables[observers[o].obs].key] = o

----------------------------------------------------------------------------
(* Properties of the open subscriptions *)

AnyVariables == {Undefined, NoVariables, Variables1, Variables2}

\* the kind of match, "wildcard" or "regular", that served the subscription
\* of observer o
OpenedVia(o) == observables[observers[o].obs].mode

\* the observers registered as open subscriptions after a match of the kind
Channels(mode) ==
    {openSubscriptions[k] : k \in {x \in DOMAIN openSubscriptions :
                                       OpenedVia(openSubscriptions[x]) = mode}}

Unchanged(o) == observers'[o] = observers[o]

\* C11: sendSubscriptionResult, whatever the variables, sends nothing to an
\* observer whose subscription was served by a wildcard mock, and throws
\* when every open subscription is of that kind; sendWildcardSubscriptionResult
\* sends nothing to an observer whose subscription was served by a regular
\* mock, and throws when every open subscription is of that kind.
C11_NamespaceSeparation ==
    [][/\ \A v \in AnyVariables :
            SendSubscriptionResult(SubscriptionDoc, v) =>
                /\ \A o \in Observers : OpenedVia(o) = "wildcard" => Unchanged(o)
                /\ Channels("regular") = {} => threw' = "sendSubscriptionResult"
       /\ SendWildcardSubscriptionResult(SubscriptionDoc) =>
                /\ \A o \in Observers : OpenedVia(o) = "regular" => Unchanged(o)
                /\ Channels("wildcard") = {} => threw' = "sendWildcardSubscriptionResult"
      ]_vars

\* C11 witness: sendSubscriptionResult threw while the subscription served by
\* a wildcard mock was open and had received its initial value only.
C11_Witness ==
    /\ threw = "sendSubscriptionResult"
    /\ \E o \in Channels("wildcard") :
          /\ ~observers[o].closed
          /\ Len(observers[o].events) = 1
          /\ observers[o].events[1].value.from = "mock"

\* the registries and logs that a method that throws leaves alone
ThrowLeaves ==
    UNCHANGED <<observers, openSubscriptions, wildcardMatches, regularMatches, registered,
                queries, mutations, subscriptions, timers, pushes, pendingResponses,
                lastResponse>>

\* C12: sendSubscriptionResult, sendWildcardSubscriptionResult and
\* closeSubscription throw exactly when no open subscription is registered
\* under the key they compute, and a call that throws sends nothing to any
\* observer and leaves the open subscriptions, the mock registries and the
\* logs of operations unchanged.
C12_ChannelNotOpen ==
    [][/\ threw' # NoError => ThrowLeaves
       /\ \A v \in AnyVariables :
            SendSubscriptionResult(SubscriptionDoc, v) =>
                ((threw' = "sendSubscriptionResult")
                    <=> ~MapHas(openSubscriptions,
                                queryAndVariablesToString(addTypename, SubscriptionDoc, v)))
       /\ SendWildcardSubscriptionResult(SubscriptionDoc) =>
                ((threw' = "sendWildcardSubscriptionResult")
                    <=> ~MapHas(openSubscriptions, queryToString(addTypename, SubscriptionDoc)))
       /\ CloseSubscription(SubscriptionDoc) =>
                ((threw' = "closeSubscription")
                    <=> ~MapHas(openSubscriptions, queryToString(addTypename, SubscriptionDoc)))
      ]_vars

\* C12 witness: sendWildcardSubscriptionResult threw while a subscription was
\* open under another key and its observer had received a value.
C12_Witness ==
    /\ threw = "sendWildcardSubscriptionResult"
    /\ \E k \in DOMAIN openSubscriptions :
          /\ k # queryToString(addTypename, SubscriptionDoc)
          /\ observers[openSubscriptions[k]].events # <<>>

CompleteEvent(t) == [type |-> "complete", value |-> CloseValue, at |-> t]

\* C13: closeSubscription on a key with an open subscription does not throw,
\* sends its observer one completion, sends the other observers nothing and
\* removes the key; a registered observer is never a completed one, so that
\* every later call on the key throws (C12) until the key is registered
\* again, which only a new subscribe call does.
C13_CloseSubscription ==
    [][/\ LET key == queryToString(addTypename, SubscriptionDoc)
          IN  (CloseSubscription(SubscriptionDoc) /\ MapHas(openSubscriptions, key)) =>
                LET o == openSubscriptions[key]
                IN  /\ threw' = NoError
                    /\ ~MapHas(openSubscriptions', key)
                    /\ observers'[o].events = Append(observers[o].events, CompleteEvent(now))
                    /\ observers'[o].closed
                    /\ \A p \in Observers \ {o} : Unchanged(p)
       /\ \A k \in DOMAIN openSubscriptions' : ~observers'[openSubscriptions'[k]].closed
       /\ \A k \in DOMAIN openSubscriptions' :
            (~MapHas(openSubscriptions, k) \/ openSubscriptions'[k] # openSubscriptions[k])
                => /\ Len(observers') = Len(observers) + 1
                   /\ openSubscriptions'[k] = Len(observers')
       /\ \A o \in Observers : observers[o].closed => Unchanged(o)
      ]_vars

\* C13 witness: a subscription was closed, its observer has the completion
\* as its last event, and the sendWildcardSubscriptionResult that followed
\* threw.
C13_Witness ==
    /\ threw = "sendWildcardSubscriptionResult"
    /\ ~MapHas(openSubscriptions, queryToString(addTypename, SubscriptionDoc))
    /\ \E o \in Callers :
          /\ observers[o].closed
          /\ Len(observers[o].events) = 2
          /\ observers[o].events[2] = CompleteEvent(observers[o].events[2].at)

\* the open subscriptions on the document, under whatever key
ChannelsOf(query) ==
    {k \in DOMAIN openSubscriptions :
        queryToString(addTypename, observables[observers[openSubscriptions[k]].obs].op.query)
            = queryToString(addTypename, query)}

\* C14: closeSubscription(document) while a subscription on the document is
\* open, served by a wildcard or by a regular mock, does not throw, sends the
\* completion to the observer of one of them and removes it.
C14_CloseAnyChannel ==
    [][(CloseSubscription(SubscriptionDoc) /\ ChannelsOf(SubscriptionDoc) # {}) =>
            /\ threw' = NoError
            /\ \E k \in ChannelsOf(SubscriptionDoc) :
                  /\ ~MapHas(openSubscriptions', k)
                  /\ observers'[openSubscriptions[k]].closed
      ]_vars

\* closeSubscription closes the subscriptions served by a wildcard mock
C14_CloseWildcardChannel ==
    [][(CloseSubscription(SubscriptionDoc) /\ Channels("wildcard") # {}) =>
            /\ threw' = NoError
            /\ \E k \in ChannelsOf(SubscriptionDoc) :
                  /\ ~MapHas(openSubscriptions', k)
                  /\ observers'[openSubscriptions[k]].closed
      ]_vars

----------------------------------------------------------------------------
(* Properties of the waitFor* calls *)

Waits == 1..Len(waits)

\* the operations whose Observable the link subscribed to for a promise
TrackedOps == {observers[o].obs : o \in {x \in Observers : observers[x].internal}}

Max(S) == CHOOSE x \in S : \A y \in S : x >= y

\* the last of the first n operations that has a promise, 0 when none has
LastTracked(n) ==
    LET tracked == TrackedOps \cap (1..n)
    IN  IF tracked = {} THEN 0 ELSE Max(tracked)

WaitCalled(kind) == Len(waits') = Len(waits) + 1 /\ waits'[Len(waits')].kind = kind

\* C15: the promise of a waitForLastResponse call is resolved at once when
\* no query or mutation submitted before the call had a promise, and
\* otherwise exactly when the promise of the last query or mutation with a
\* promise submitted before the call is resolved, whatever the state of the
\* promises of the operations before that one.
C15_WaitForLastResponse ==
    \A w \in Waits :
        waits[w].kind = "last" =>
            LET last == LastTracked(waits[w].nops)
            IN  (waits[w].pc = "resolved") <=> (last = 0 \/ last \in resolvedResponses)

\* C15 witness: a waitForLastResponse call made after a slow and a fast
\* operation, and before either was delivered, is resolved while the slow
\* operation is still pending.
C15_Witness ==
    \E w \in Waits :
        /\ waits[w].kind = "last"
        /\ waits[w].pc = "resolved"
        /\ waits[w].rounds = 1
        /\ waits[w].nops = 2
        /\ 1 \in pendingResponses
        /\ 2 \in resolvedResponses

\* C16: a waitForAllResponses call waits for the promises pending when it is
\* called, that set does not change afterwards, and the promise of the call
\* is resolved exactly when all of them are resolved, whatever became
\* pending after the call.
C16_WaitForAllResponses ==
    [][/\ WaitCalled("all") => waits'[Len(waits')].awaiting = pendingResponses
       /\ \A w \in Waits : waits[w].kind = "all" => waits'[w].awaiting = waits[w].awaiting
       /\ \A w \in 1..Len(waits') :
            waits'[w].kind = "all" =>
                ((waits'[w].pc = "resolved") <=> (waits'[w].awaiting \subseteq resolvedResponses'))
      ]_vars

\* C16 witness: a waitForAllResponses call that had to wait is resolved
\* while an operation submitted after the call is still pending.
C16_Witness ==
    \E w \in Waits :
        /\ waits[w].kind = "all"
        /\ waits[w].pc = "resolved"
        /\ waits[w].awaiting # {}
        /\ \E i \in pendingResponses : i > waits[w].nops /\ observables[i].mock.result # "none"

\* C17: the promise of a waitForAllResponsesRecursively call becomes
\* resolved only in a step that leaves no promise pending and the promise of
\* every operation submitted so far resolved; while it waits, it waits for
\* promises that are pending or for its request window.
C17_RecursiveWaitsForChain ==
    [][\A w \in 1..Len(waits') :
         waits'[w].kind = "recursive" =>
            /\ (waits'[w].pc = "resolved" /\ (w > Len(waits) \/ waits[w].pc # "resolved"))
                    => /\ pendingResponses' = {}
                       /\ TrackedOps' \subseteq resolvedResponses'
            /\ waits'[w].pc = "awaiting" => waits'[w].awaiting \cap pendingResponses' # {}
            /\ waits'[w].pc = "window" =>
                    \E t \in 1..Len(timers') :
                        timers'[t].type = "window" /\ timers'[t].value.id = w
      ]_vars

\* C17 witness: a waitForAllResponsesRecursively call waited for an
\* operation, then for a second operation submitted before its request
\* window was over, and is resolved with both delivered.
C17_Witness ==
    \E w \in Waits :
        /\ waits[w].kind = "recursive"
        /\ waits[w].pc = "resolved"
        /\ waits[w].rounds = 2
        /\ waits[w].nops = 1
        /\ resolvedResponses = {1, 2}

\* the operations that matched a mock with a result or an error
CompleteOps == {i \in Ops : observables[i].kind = "forward"}

\* C18: under fair scheduling of the timers, the promise of every
\* waitForAllResponsesRecursively call is resolved in the end, unless one of
\* the (finitely many) operations did not match a mock with a result or an
\* error.
C18_RecursiveWaitResolves ==
    \A w \in 1..MaxWaits :
        (Len(waits) >= w /\ waits[w].kind = "recursive")
            ~> ((Len(waits) >= w /\ waits[w].pc = "resolved") \/ CompleteOps # Ops)

\* under fair scheduling of the timers, the promise of every
\* waitForAllResponsesRecursively call is resolved in the end, unless one of
\* the operations did not match a mock with a result
C18_ResolvesWithResults ==
    \A w \in 1..MaxWaits :
        (Len(waits) >= w /\ waits[w].kind = "recursive")
            ~> ((Len(waits) >= w /\ waits[w].pc = "resolved")
                    \/ \E i \in Ops : observables[i].kind # "forward"
                                           \/ observables[i].mock.result = "none")

\* C19: under fair scheduling of the timers, the promise of every query or
\* mutation that matched a mock with a result or an error is resolved and
\* removed from pendingResponses in the end.
C19_EveryDeliverySettles ==
    \A i \in 1..MaxWaitOps :
        (Len(observables) >= i /\ i \in CompleteOps)
            ~> (i \in resolvedResponses /\ i \notin pendingResponses)

\* the promise of every query or mutation that matched a mock with a result
\* is resolved and removed from pendingResponses in the end
C19_ResultDeliverySettles ==
    \A i \in 1..MaxWaitOps :
        (Len(observables) >= i /\ i \in CompleteOps /\ observables[i].mock.result # "none")
            ~> (i \in resolvedResponses /\ i \notin pendingResponses)

----------------------------------------------------------------------------
(* Properties of the logs of operations *)

\* the log an operation on the document goes to
LogOf(query) ==
    CASE query.operation = "subscription" -> "subscriptions"
      [] query.operation = "mutation" -> "mutations"
      [] OTHER -> "queries"

\* the operations submitted so far that went to the log
OpsOf(log) == {i \in Ops : LogOf(observables[i].op.query) = log}

\* the last operation of the log was submitted on a document with the
\* canonical key of request
LastSubmittedMatches(log, request) ==
    /\ OpsOf(log) # {}
    /\ queryToString(addTypename, observables[Max(OpsOf(log))].op.query)
            = queryToString(addTypename, request)

\* C20: lastQueryMatches(doc) is true exactly when a query was submitted and
\* the most recently submitted query is on a document with the canonical key
\* of doc, whatever its variables and whatever mutations and subscriptions
\* were submitted after it; likewise lastMutationMatches and
\* lastSubscriptionMatches for the mutations and the subscriptions.
C20_LastMatches ==
    \A request \in ProbeDocs :
        /\ lastQueryMatches(request) <=> LastSubmittedMatches("queries", request)
        /\ lastMutationMatches(request) <=> LastSubmittedMatches("mutations", request)
        /\ lastSubscriptionMatches(request) <=> LastSubmittedMatches("subscriptions", request)

\* C20 witness: after a query on another document, a query on QueryDoc with
\* the second set of variables and then a mutation, lastQueryMatches is true
\* for QueryDoc, written with or without __typename, and false for the other
\* document.
C20_Witness ==
    /\ Len(observables) = 3
    /\ observables[1].op = [query |-> QueryDoc2, variables |-> Variables1, context |-> "ctx"]
    /\ observables[2].op = [query |-> QueryDoc, variables |-> Variables2, context |-> "ctx"]
    /\ observables[3].op.query = MutationDoc
    /\ lastQueryMatches(QueryDoc)
    /\ lastQueryMatches(QueryDocTyped)
    /\ ~lastQueryMatches(QueryDoc2)
    /\ lastMutationMatches(MutationDoc)
    /\ ~lastSubscriptionMatches(SubscriptionDoc)

\* the operations submitted so far, in submission order
Submitted == [i \in 1..Len(observables) |-> observables[i].op]

\* the operations submitted so far that belong in the log, in submission order
SubmittedTo(log) == SelectSeq(Submitted, LAMBDA op : LogOf(op.query) = log)

\* the operation submitted last among those that belong in the log
LastSubmittedTo(log) ==
    IF OpsOf(log) = {} THEN NoStoredOperation ELSE observables[Max(OpsOf(log))].op

\* C21: a request appends the submitted operation (document, variables and
\* context) to the log of its kind and leaves the other two logs unchanged,
\* whether it is served, misses or hits a mock without result and error; no
\* other step changes a log; each log is at every moment the sequence of the
\* operations of its kind in submission order; and lastQuery, lastMutation
\* and lastSubscription are the operation of their kind submitted last, or
\* undefined when there was none.
C21_LogAppendOnly ==
    [][/\ RequestStep =>
            LET op == observables'[NewOp].op
                log == LogOf(op.query)
            IN  /\ queries' = IF log = "queries" THEN Append(queries, op) ELSE queries
                /\ mutations' = IF log = "mutations" THEN Append(mutations, op) ELSE mutations
                /\ subscriptions' = IF log = "subscriptions" THEN Append(subscriptions, op)
                                    ELSE subscriptions
       /\ ~RequestStep => UNCHANGED <<queries, mutations, subscriptions>>
       /\ queries' = SubmittedTo("queries")'
       /\ mutations' = SubmittedTo("mutations")'
       /\ subscriptions' = SubmittedTo("subscriptions")'
       /\ lastQuery' = LastSubmittedTo("queries")'
       /\ lastMutation' = LastSubmittedTo("mutations")'
       /\ lastSubscription' = LastSubmittedTo("subscriptions")'
      ]_vars

\* C21 witness: a query that no mock matched and then a mutation served by a
\* mock without result and error are each the only entry of their log, and
\* lastSubscription is undefined.
C21_Witness ==
    /\ Len(observables) = 2
    /\ observables[1].op.query = QueryDoc /\ observables[1].mode = "none"
    /\ observables[2].op.query = MutationDoc /\ observables[2].error = "MustProvide"
    /\ queries = <<observables[1].op>>
    /\ mutations = <<observables[2].op>>
    /\ lastQuery.variables = Variables2
    /\ lastMutation = observables[2].op
    /\ lastSubscription = NoStoredOperation

----------------------------------------------------------------------------
(* Properties of the tracked promises *)

HasValue(o) == \E e \in 1..Len(observers[o].events) : observers[o].events[e].type = "next"

\* the promise of the wait w is resolved in this step
Resolves(w) == waits[w].pc = "awaiting" /\ waits'[w].pc = "resolved"

\* the link's own observer of the i-th operation
TrackerOf(i) == {o \in Observers : observers[o].obs = i /\ observers[o].internal}

\* C22: in the step that resolves the promise of a waitForLastResponse or
\* waitForAllResponses call, every observer the caller had attached to the
\* Observable of an operation the call waited for has received the value of
\* that operation.
C22_CallerDeliveredFirst ==
    [][\A w \in Waits :
         Resolves(w) =>
            \A i \in waits[w].awaiting : \A o \in CallerObservers(i) : HasValue(o)']_vars

\* in the step that resolves the promise of a waitForLastResponse or
\* waitForAllResponses call, the link's own observer of every operation the
\* call waited for has received the value of that operation
C22_TrackerDeliveredFirst ==
    [][\A w \in Waits :
         Resolves(w) =>
            \A i \in waits[w].awaiting :
                TrackerOf(i) # {} /\ \A o \in TrackerOf(i) : HasValue(o)']_vars

----------------------------------------------------------------------------
(* Properties of the queues *)

QueueKeyOfOp(i) ==
    IF observables[i].mode = "wildcard" THEN WildcardKeyOfOp(i) ELSE RegularKeyOfOp(i)

\* the mocks of every queue of the map are in registration order
InRegistrationOrder(map) ==
    \A k \in DOMAIN map : \A a, b \in 1..Len(map[k]) : a < b => map[k][a].id < map[k][b].id

\* C23: every queue holds its mocks in registration order, the responses of
\* the constructor before those of later addMockedResponse calls, and every
\* operation served from a queue is served by the earliest registered
\* response for that key that has matches left: a response registered later
\* for the key serves no operation while an earlier one has matches left.
C23_FifoService ==
    /\ InRegistrationOrder(wildcardMatches)
    /\ InRegistrationOrder(regularMatches)
    /\ \A i \in Ops :
          observables[i].mode # "none" =>
              LET cands == Candidates(i, observables[i].mode = "wildcard", QueueKeyOfOp(i))
              IN  /\ cands # {}
                  /\ observables[i].mock.id = Min(cands)

\* C23 witness: a response of the constructor and a response registered
\* later for the same key, both queued before the first operation; the
\* first operation on the key was served by the response of the
\* constructor and the second by the later one.
C23_Witness ==
    /\ Len(registered) = 2
    /\ registered[1].via = "constructor"
    /\ registered[2].via = "addMockedResponse"
    /\ KeyOfResponse(registered[1].response) = KeyOfResponse(registered[2].response)
    /\ Len(observables) = 2
    /\ observables[1].nreg = 2
    /\ observables[1].mode # "none" /\ observables[1].mock.id = 1
    /\ observables[2].mode = observables[1].mode /\ observables[2].mock.id = 2

\* the keys a response can be registered under or an operation looked up by
QueueKeys ==
    {KeyOfResponse(registered[r].response) : r \in 1..Len(registered)}
        \cup {WildcardKeyOfOp(i) : i \in Ops} \cup {RegularKeyOfOp(i) : i \in Ops}

\* the responses registered under the key, as wildcard or not, that were not
\* removed and can serve the next operation
Servable(wildcard, key) ==
    {r \in 1..Len(registered) :
        /\ isNotWildcard(registered[r].response) = ~wildcard
        /\ KeyOfResponse(registered[r].response) = key
        /\ ~registered[r].removed
        /\ HasMatchesLeft(r, Len(observables) + 1)}

\* C24: no key of wildcardMatches or regularMatches is mapped to an empty
\* queue, and a key is in one of the maps exactly when a response
\* registered under it in that map, not removed since, can still serve an
\* operation.
C24_NoEmptyQueue ==
    /\ \A k \in DOMAIN wildcardMatches : wildcardMatches[k] # <<>>
    /\ \A k \in DOMAIN regularMatches : regularMatches[k] # <<>>
    /\ DOMAIN wildcardMatches \subseteq QueueKeys
    /\ DOMAIN regularMatches \subseteq QueueKeys
    /\ \A key \in QueueKeys :
          /\ MapHas(wildcardMatches, key) <=> Servable(TRUE, key) # {}
          /\ MapHas(regularMatches, key) <=> Servable(FALSE, key) # {}

\* C24 witness: the only response for a key served an operation and was
\* used up, the key is in neither map, and the next operation on the key
\* got the no-mocks-matched error.
C24_Witness ==
    /\ Len(observables) = 2
    /\ observables[1].mode = "regular"
    /\ observables[2].mode = "none"
    /\ RegularKeyOfOp(2) = RegularKeyOfOp(1)
    /\ ~MapHas(regularMatches, RegularKeyOfOp(1))
    /\ ~MapHas(wildcardMatches, WildcardKeyOfOp(1))
    /\ \E r \in 1..Len(registered) : KeyOfResponse(registered[r].response) = RegularKeyOfOp(1)

----------------------------------------------------------------------------
(* Properties of the match counts *)

\* every mock stored in a queue of the map has a count that is omitted,
\* Infinity or at least one
CountAtLeastOne(map) ==
    \A k \in DOMAIN map : \A j \in 1..Len(map[k]) :
        map[k][j].nMatches.k = "number" => map[k][j].nMatches.n >= 1

QueueOf(map, key) == IF MapHas(map, key) THEN map[key] ELSE <<>>

\* after is before with one match of its head consumed: the head is gone
\* when its count was omitted or one, and has one match less otherwise
ConsumedOne(before, after) ==
    LET head == before[1]
    IN  CASE head.nMatches.k = "infinity" -> after = before
          [] head.nMatches.k = "number" /\ head.nMatches.n # 1 ->
                after = <<[head EXCEPT !.nMatches.n = @ - 1]>> \o Tail(before)
          [] OTHER -> after = Tail(before)

\* a step leaves counts of at least one in the queues, and a request that is
\* served consumes one match of the head of the queue that serves it
CountedMatchStep ==
    /\ CountAtLeastOne(wildcardMatches')
    /\ CountAtLeastOne(regularMatches')
    /\ RequestStep =>
          LET o == observables'[NewOp]
              wk == queryToString(addTypename, o.op.query)
              rk == queryAndVariablesToString(addTypename, o.op.query, o.op.variables)
          IN  /\ o.mode = "wildcard" =>
                    /\ o.mock.id = wildcardMatches[wk][1].id
                    /\ ConsumedOne(wildcardMatches[wk], QueueOf(wildcardMatches', wk))
              /\ o.mode = "regular" =>
                    /\ o.mock.id = regularMatches[rk][1].id
                    /\ ConsumedOne(regularMatches[rk], QueueOf(regularMatches', rk))

\* the regular response objects that were registered more than once
RegisteredTwice ==
    {registered[a].response.id : a \in {x \in 1..Len(registered) :
        /\ isNotWildcard(registered[x].response)
        /\ \E y \in 1..Len(registered) :
              y # x /\ registered[y].response.id = registered[x].response.id}}

\* C25: with match counts that are omitted, Infinity or positive integers,
\* every served request takes exactly one match from the head of the queue
\* that serves it, the head leaves the queue exactly when that was its last
\* match, and every mock stored in a queue has a count of at least one (or
\* Infinity, or none) in every state.
C25_CountedMatches == [][CountedMatchStep]_vars

\* the same, for a link no regular response object was registered with twice
C25_CountedMatchesOfDistinctObjects == [][RegisteredTwice' = {} => CountedMatchStep]_vars

\* the queues of the keys other than key are the same in both maps
OthersSame(map, mapAfter, key) ==
    /\ DOMAIN map \ {key} = DOMAIN mapAfter \ {key}
    /\ \A k \in DOMAIN map \ {key} : mapAfter[k] = map[k]

----------------------------------------------------------------------------
(* Properties of the results that are functions *)

\* the values of a mock the observer o has received
MockValues(o) ==
    {observers[o].events[e].value : e \in {x \in 1..Len(observers[o].events) :
        observers[o].events[x].type = "next" /\ observers[o].events[x].value.from = "mock"}}

\* C27: every value an observer (the caller's or the link's own) receives
\* for an operation served by a wildcard mock whose result is a function is
\* the result of calling that function with the variables of the operation
\* itself, not with the variables the mock is stored with.
C27_CallerVariables ==
    \A o \in Observers :
        LET i == observers[o].obs
        IN  (observables[i].mode = "wildcard" /\ ResponseOf(i).result = "function")
                => \A value \in MockValues(o) :
                      /\ value.id = observables[i].mock.id
                      /\ value.args = observables[i].op.variables

\* C27 witness: two operations with different variables were served by the
\* same wildcard mock with a function as result, and the observers of both
\* have received the value computed from the variables of their operation.
C27_Witness ==
    \E o, p \in Observers :
        /\ observers[o].obs = 1 /\ observers[p].obs = 2
        /\ observables[1].mode = "wildcard" /\ observables[2].mode = "wildcard"
        /\ observables[1].mock.id = observables[2].mock.id
        /\ ResponseOf(1).result = "function"
        /\ observables[1].op.variables # observables[2].op.variables
        /\ \E value \in MockValues(o) : value.args = observables[1].op.variables
        /\ \E value \in MockValues(p) : value.args = observables[2].op.variables

\* C28: a request of a subscription, served or not, leaves pendingResponses
\* and lastResponse unchanged and sets no timer and no observer of the link
\* for it; no promise of the link belongs to a subscription, and no
\* waitFor* call waits for one.
C28_SubscriptionsUntracked ==
    [][/\ (RequestStep /\ observables'[NewOp].op.query.operation = "subscription")
            => UNCHANGED <<pendingResponses, lastResponse, resolvedResponses, observers, timers>>
       /\ \A i \in pendingResponses' \cup resolvedResponses' \cup ({lastResponse'} \ {0}) :
            observables'[i].op.query.operation # "subscription"
       /\ \A w \in 1..Len(waits') : \A i \in waits'[w].awaiting :
            observables'[i].op.query.operation # "subscription"
      ]_vars

\* C28 witness: a waitForLastResponse call made after a query and then a
\* subscription, whose caller subscribed, is resolved by the delivery of the
\* query while the initial value of the subscription is still outstanding.
C28_Witness ==
    /\ Len(observables) = 2
    /\ ~IsSubscription(1) /\ IsSubscription(2)
    /\ observables[2].mode = "regular"
    /\ lastResponse = 1
    /\ \E w \in Waits :
          /\ waits[w].kind = "last" /\ waits[w].nops = 2
          /\ waits[w].awaiting = {1} /\ waits[w].pc = "resolved"
    /\ \E o \in CallerObservers(2) :
          /\ observers[o].events = <<>>
          /\ \E t \in 1..Len(timers) : timers[t].observer = o

\* the i-th operation is a query or mutation that no mock matched or that a
\* mock without result and error served
Undelivered(observable, responses) ==
    /\ observable.op.query.operation # "subscription"
    /\ \/ observable.mode = "none"
       \/ IsIncomplete(responses[observable.mock.id].response)

\* C29: a request of a query or mutation that no mock matches, or that a
\* mock without result and error serves, returns an Observable of an error
\* and leaves pendingResponses, lastResponse, the timers and the observers
\* unchanged; no timer is ever set for such an operation, and an observer
\* of it is sent the error in its subscribe call, and nothing else.
C29_NoDeliveryForErrors ==
    [][/\ (RequestStep /\ Undelivered(observables'[NewOp], registered'))
            => /\ observables'[NewOp].kind = "error"
               /\ UNCHANGED <<pendingResponses, lastResponse, resolvedResponses, timers,
                              observers>>
       /\ \A t \in 1..Len(timers') :
            ~Undelivered(observables'[observers'[timers'[t].observer].obs], registered')
       /\ \A o \in 1..Len(observers') :
            Undelivered(observables'[observers'[o].obs], registered')
                => /\ ~observers'[o].internal
                   /\ observers'[o].closed
                   /\ observers'[o].events =
                          <<ErrorEvent(observables'[observers'[o].obs].error, observers'[o].since)>>
                   /\ o > Len(observers) => timers' = timers
      ]_vars

\* C29 witness: a query that was served is pending, a mutation served by a
\* mock without result and error was submitted after it and the caller's
\* observer of the mutation was sent the error; lastResponse is still the
\* promise of the query and only the query has a timer.
C29_Witness ==
    /\ Len(observables) = 2
    /\ observables[1].kind = "forward"
    /\ observables[2].op.query = MutationDoc /\ observables[2].error = "MustProvide"
    /\ lastResponse = 1
    /\ pendingResponses = {1}
    /\ Len(timers) = 1
    /\ \E o \in CallerObservers(2) :
          observers[o].events = <<ErrorEvent("MustProvide", observers[o].since)>>

----------------------------------------------------------------------------
(* Properties of the scheduling *)

\* C30: an observer of an operation a mock with a result or an error serves
\* has received nothing when the call that attached it returns (the request
\* call for the link's own observer, the subscribe call for the caller's),
\* whatever the delay of the mock, zero included; it receives the value,
\* the error and the completion only in a later step, the callback of a
\* timer that was set before that step.
C30_NeverSynchronous ==
    [][\A o \in 1..Len(observers') :
         observables'[observers'[o].obs].kind = "forward" =>
            /\ o > Len(observers) => observers'[o].events = <<>> /\ ~observers'[o].closed
            /\ (/\ o <= Len(observers)
                /\ SelectMockEvents(observers'[o].events)
                        # SelectMockEvents(observers[o].events)) =>
                    /\ Len(observables') = Len(observables)
                    /\ Len(observers') = Len(observers)
                    /\ \E t \in 1..Len(timers) :
                          /\ timers[t].observer = o
                          /\ timers' = RemoveAt(timers, t)
      ]_vars

\* C30 witness: the caller's observer of an operation served by a mock
\* with no delay has received its value or its error, at the clock time at
\* which it subscribed but in a later step.
C30_Witness ==
    \E o \in Callers :
        /\ observables[observers[o].obs].kind = "forward"
        /\ ResponseOf(observers[o].obs).delay = 0
        /\ observers[o].events # <<>>
        /\ observers[o].events[1].at = observers[o].since

----------------------------------------------------------------------------
(* Properties of subscriptions opened under one key *)

\* the observers the caller subscribed to a subscription registered under key
OpenedUnder(obsvs, returned, key) ==
    {o \in 1..Len(obsvs) : ~obsvs[o].internal /\ returned[obsvs[o].obs].key = key}

\* the observer a send or close call on key may reach: the one subscribed
\* last under key, while the key is registered
Reached(key) ==
    IF MapHas(openSubscriptions, key)
    THEN {Max(OpenedUnder(observers, observables, key))}
    ELSE {}

PushedTo(o) == {e \in 1..Len(observers[o].events) : observers[o].events[e].value.from = "push"}

\* C31: every registered key holds one observer, the one subscribed last
\* under it; a subscribe call on a subscription whose key is registered
\* already puts the new observer in the place of the old one; after that
\* sendSubscriptionResult, sendWildcardSubscriptionResult and
\* closeSubscription on the key send nothing to any observer but the one
\* subscribed last, and a send that does not throw appends its value to
\* what that observer has seen.
C31_OneChannelPerKey ==
    [][/\ \A k \in DOMAIN openSubscriptions' :
            /\ OpenedUnder(observers', observables', k) # {}
            /\ openSubscriptions'[k] = Max(OpenedUnder(observers', observables', k))
       /\ (/\ Len(observers') = Len(observers) + 1
           /\ ~observers'[Len(observers')].internal
           /\ observables[observers'[Len(observers')].obs].key # NoKey)
            => openSubscriptions' =
                  MapSet(openSubscriptions, observables[observers'[Len(observers')].obs].key,
                         Len(observers'))
       /\ LET regularKey == queryAndVariablesToString(addTypename, SubscriptionDoc, Variables1)
              wildcardKey == queryToString(addTypename, SubscriptionDoc)
          IN  /\ SendSubscriptionResult(SubscriptionDoc, Variables1) =>
                    /\ \A o \in Observers \ Reached(regularKey) : Unchanged(o)
                    /\ \A o \in Reached(regularKey) :
                          observers'[o].events =
                              Append(observers[o].events,
                                     [type |-> "next", value |-> PushValue(pushes + 1),
                                      at |-> now])
              /\ SendWildcardSubscriptionResult(SubscriptionDoc) =>
                    /\ \A o \in Observers \ Reached(wildcardKey) : Unchanged(o)
                    /\ \A o \in Reached(wildcardKey) :
                          observers'[o].events =
                              Append(observers[o].events,
                                     [type |-> "next", value |-> PushValue(pushes + 1),
                                      at |-> now])
              /\ CloseSubscription(SubscriptionDoc) =>
                    /\ \A o \in Observers \ Reached(wildcardKey) : Unchanged(o)
                    /\ \A o \in Reached(wildcardKey) : observers'[o].closed
      ]_vars

\* C31 witness: two operations on the subscription were submitted and the
\* caller subscribed to both under one key; the observer subscribed last has
\* been sent a value and then the completion of closeSubscription, and the
\* observer it replaced has been sent neither and is still open.
C31_Witness ==
    \E o1, o2 \in Callers :
        /\ o1 < o2
        /\ observers[o1].obs # observers[o2].obs
        /\ observables[observers[o1].obs].key = observables[observers[o2].obs].key
        /\ PushedTo(o2) # {}
        /\ observers[o2].closed
        /\ observers[o2].events[Len(observers[o2].events)].value = CloseValue
        /\ PushedTo(o1) = {}
        /\ ~observers[o1].closed

\* the observer o subscribed to a subscription served by a mock registered
\* with a result
SubscriberWithInitialValue(o) ==
    /\ ~observers[o].internal
    /\ IsSubscription(observers[o].obs)
    /\ observables[observers[o].obs].kind = "forward"
    /\ ResponseOf(observers[o].obs).result # "none"

\* C32: the observer of a subscription served by a mock with an initial
\* value is never sent a value of send*SubscriptionResult before the
\* initial value: every value sent to it by a send call comes after the
\* initial value.
C32_InitialValueFirst ==
    \A o \in Callers :
        SubscriberWithInitialValue(o) =>
            \A e \in PushedTo(o) :
                \E first \in 1..(e - 1) : observers[o].events[first].value.from = "mock"

\* the observer o subscribed to a subscription served by a mock registered
\* with neither result nor error
SubscriberWithoutInitialValue(obsvs, o) ==
    /\ ~obsvs[o].internal
    /\ IsSubscription(obsvs[o].obs)
    /\ observables[obsvs[o].obs].kind = "forward"
    /\ ResponseOf(obsvs[o].obs).result = "none"
    /\ ~ResponseOf(obsvs[o].obs).error

\* the send call on the subscription that computes the key
SendTo(key) ==
    \/ /\ key = queryToString(addTypename, SubscriptionDoc)
       /\ SendWildcardSubscriptionResult(SubscriptionDoc)
    \/ /\ key = queryAndVariablesToString(addTypename, SubscriptionDoc, Variables1)
       /\ SendSubscriptionResult(SubscriptionDoc, Variables1)

\* C33: a subscribe call on a subscription served by a mock, wildcard or
\* regular, with neither result nor error registers the observer under its
\* key, sends it nothing and sets no timer; the observer is never sent an
\* error or a value of the mock, and the first value it is sent is the one
\* of the first send call of the form of its key (the document alone for a
\* wildcard mock, the document and the variables for a regular one) made
\* while it is registered; the send call of the other form sends it nothing.
C33_NoInitialValue ==
    [][\A o \in 1..Len(observers') :
          SubscriberWithoutInitialValue(observers', o) =>
              LET key == observables[observers'[o].obs].key
              IN  /\ o > Len(observers) =>
                        /\ observers'[o].events = <<>>
                        /\ ~observers'[o].closed
                        /\ timers' = timers
                        /\ MapHas(openSubscriptions', key)
                        /\ openSubscriptions'[key] = o
                  /\ \A t \in 1..Len(timers') : timers'[t].observer # o
                  /\ \A e \in 1..Len(observers'[o].events) :
                        /\ observers'[o].events[e].type # "error"
                        /\ observers'[o].events[e].value.from \in {"push", "close"}
                  /\ (/\ o <= Len(observers)
                      /\ observers[o].events = <<>>
                      /\ MapHas(openSubscriptions, key)
                      /\ openSubscriptions[key] = o)
                        => /\ SendTo(key) =>
                                 /\ threw' = NoError
                                 /\ observers'[o].events =
                                       <<[type |-> "next", value |-> PushValue(pushes + 1),
                                          at |-> now]>>
                           /\ ((SendWildcardSubscriptionResult(SubscriptionDoc)
                                   \/ SendSubscriptionResult(SubscriptionDoc, Variables1))
                                 /\ ~SendTo(key))
                                 => /\ threw' # NoError
                                    /\ observers'[o] = observers[o]
      ]_vars

\* C33 witness: the observer of a subscription served by a regular mock with
\* neither result nor error is registered and open, and all it has been sent
\* is the value of the first sendSubscriptionResult call that did not throw.
C33_Witness ==
    \E o \in Callers :
        /\ SubscriberWithoutInitialValue(observers, o)
        /\ observables[observers[o].obs].mode = "regular"
        /\ observers[o].events = <<[type |-> "next", value |-> PushValue(1), at |-> now]>>
        /\ ~observers[o].closed
        /\ openSubscriptions[observables[observers[o].obs].key] = o
        /\ timers = <<>>

----------------------------------------------------------------------------
(* Properties of the removal of wildcard responses *)

\* C34: removeWildcardMockedResponse(document) does not throw, removes the
\* wildcard queue of the document with every response in it, whatever their
\* match counts, and leaves the other wildcard queues, the regular queues,
\* the open subscriptions, the observers, the timers and the logs of
\* operations unchanged, also when the document has no wildcard queue; an
\* operation submitted while its document has no wildcard queue is served by
\* a regular response registered for its document and variables or gets the
\* error that no mock matched, and no removed response serves an operation
\* submitted after its removal.
C34_RemoveWildcard ==
    [][/\ \A q \in RemoveDocs :
            RemoveWildcardMockedResponse(q) =>
                LET mockKey == queryToString(addTypename, q)
                IN  /\ threw' = NoError
                    /\ DOMAIN wildcardMatches' = DOMAIN wildcardMatches \ {mockKey}
                    /\ \A k \in DOMAIN wildcardMatches' :
                          wildcardMatches'[k] = wildcardMatches[k]
                    /\ UNCHANGED <<regularMatches, openSubscriptions, observers, timers,
                                   observables, queries, mutations, subscriptions,
                                   pendingResponses, lastResponse, warnings>>
       /\ (RequestStep
             /\ ~MapHas(wildcardMatches,
                        queryToString(addTypename, observables'[NewOp].op.query)))
            => LET served == observables'[NewOp]
               IN  \/ /\ served.mode = "regular"
                      /\ KeyOfResponse(served.mock) =
                            queryAndVariablesToString(addTypename, served.op.query,
                                                      served.op.variables)
                   \/ /\ served.mode = "none"
                      /\ served.kind = "error"
                      /\ served.error = "NoMocksMatched"
       /\ \A i \in 1..Len(observables') :
            observables'[i].mode = "wildcard" =>
                (registered'[observables'[i].mock.id].removed
                    => i <= registered'[observables'[i].mock.id].removedAt)
      ]_vars

\* C34 witness: the wildcard response that matches twice served the first
\* query and was removed with one match left, together with the wildcard
\* response behind it that matches without end; the second query was served
\* by the regular response, and the wildcard queue of the other query is
\* still there.
C34_Witness ==
    /\ Len(observables) = 2
    /\ observables[1].mode = "wildcard"
    /\ observables[1].mock.id = 1
    /\ registered[1].removed
    /\ registered[1].removedAt = 1
    /\ registered[2].removed
    /\ observables[2].mode = "regular"
    /\ observables[2].mock.id = 3
    /\ ~MapHas(wildcardMatches, queryToString(addTypename, QueryDoc))
    /\ MapHas(wildcardMatches, queryToString(addTypename, QueryDoc2))

----------------------------------------------------------------------------
(* Properties of the keys of regular responses *)

\* the name/value pairs of variables; none when the variables are left out
PairsOf(variables) == {variables.kv[i] : i \in 1..Len(variables.kv)}

\* the observers registered for the subscription with the pairs of variables
RegisteredWith(variables) ==
    {openSubscriptions[k] : k \in {x \in DOMAIN openSubscriptions :
        PairsOf(observables[observers[openSubscriptions[x]].obs].op.variables)
            = PairsOf(variables)}}

\* C35: the key of a regular response depends on the name/value pairs of
\* the variables alone: variables left out count as no pairs, and the
\* order in which the object was built does not count.  An operation is
\* served by a regular response exactly when one was registered for its
\* document with the same pairs (a response registered without variables
\* serves an operation with empty variables), and never by a response
\* whose pairs differ in a name or a value; sendSubscriptionResult reaches
\* the observer registered with the same pairs as its variables
\* (undefined reaches the one opened with empty variables) and throws when
\* there is none.
C35_KeysByPairs ==
    [][/\ RequestStep =>
            LET served == observables'[NewOp]
                same == {r \in 1..Len(registered) :
                            PairsOf(registered[r].response.request.variables)
                                = PairsOf(served.op.variables)}
            IN  /\ (served.mode = "regular") <=> (same # {})
                /\ served.mode = "regular" => served.mock.id \in same
                /\ served.mode = "none" => served.error = "NoMocksMatched"
       /\ \A v \in KeyVariables :
            SendSubscriptionResult(SubscriptionDoc, v) =>
                /\ (threw' = NoError) <=> (RegisteredWith(v) # {})
                /\ \A o \in Observers \ RegisteredWith(v) : Unchanged(o)
                /\ \A o \in RegisteredWith(v) :
                      observers'[o].events =
                          Append(observers[o].events,
                                 [type |-> "next", value |-> PushValue(pushes + 1),
                                  at |-> now])
      ]_vars

\* C35 witness: a response registered with {b, a} served an operation
\* submitted with {a, b}, and a value sent reached its observer.
C35_Witness ==
    /\ registered[1].response.request.variables = VariablesBA
    /\ \E o \in Callers :
          /\ observables[observers[o].obs].op.variables = VariablesAB
          /\ observables[observers[o].obs].mode = "regular"
          /\ PushedTo(o) # {}

\* C35 witness of the variables left out: a response registered without
\* variables served an operation with empty variables, and the value sent
\* with undefined variables reached its observer.
C35_WitnessUndefined ==
    /\ registered[1].response.request.variables = Undefined
    /\ \E o \in Callers :
          /\ observables[observers[o].obs].op.variables = NoVariables
          /\ observables[observers[o].obs].mode = "regular"
          /\ PushedTo(o) # {}

----------------------------------------------------------------------------
(* Properties of the option act *)

\* what the mock registry or a send call makes the link send: a result or
\* an error of a response, or a value handed to send*SubscriptionResult
MockPayload(event) == event.value.from \in {"mock", "push"}

\* C36: every result and every error of a response, and every value of
\* sendSubscriptionResult and sendWildcardSubscriptionResult, that an
\* observer was sent, was sent inside one invocation of act, which is
\* callFunction when the link was constructed without act; that invocation
\* made this one call and no other, and no invocation of act made a call
\* for anything else (a completion, an error of the link itself).
C36_EmissionsInsideAct ==
    /\ \A o \in Observers :
          \A e \in 1..Len(observers[o].events) :
              LET event == observers[o].events[e]
              IN  MockPayload(event) =>
                      CopiesIn(Invocation(act, <<Call(o, event.type, event.value)>>), acts) = 1
    /\ \A invocation \in BagToSet(acts) :
          /\ invocation.hook = act
          /\ Len(invocation.calls) <= 1
          /\ \A c \in 1..Len(invocation.calls) :
                /\ invocation.calls[c].type \in {"next", "error"}
                /\ invocation.calls[c].value.from \in {"mock", "push"}

\* C36 witness: the link was constructed with an act function, and the
\* observer of a subscription has been sent the initial value and a value
\* of a send call, each inside an invocation of it.
C36_Witness ==
    /\ act = "act"
    /\ \E o \in Callers :
          /\ Len(observers[o].events) = 2
          /\ observers[o].events[1].value.from = "mock"
          /\ observers[o].events[2].value.from = "push"
          /\ BagCardinality(acts) = 2

\* C36 witness without act: the observer of the mutation has been sent the
\* error of its response inside an invocation of callFunction.
C36_WitnessDirect ==
    /\ act = "callFunction"
    /\ \E o \in Callers :
          /\ observers[o].events # <<>>
          /\ observers[o].events[1].type = "error"
          /\ observers[o].events[1].value.from = "mock"
          /\ BagIn(Invocation("callFunction",
                              <<Call(o, "error", observers[o].events[1].value)>>), acts)

----------------------------------------------------------------------------
(* Properties of operations submitted from inside a listener *)

\* the responses registered for key, wildcard or regular, that are not
\* removed and have served fewer operations than their match count
StillQueued(wildcard, key) ==
    {r \in 1..Len(registered) :
        /\ isNotWildcard(registered[r].response) = ~wildcard
        /\ KeyOfResponse(registered[r].response) = key
        /\ ~registered[r].removed
        /\ HasMatchesLeft(r, NewOp)}

\* what the timer callback sends the observer o: the result of the response
\* that served its operation, then the completion
Delivery(o, t) ==
    <<[type |-> "next",
       value |-> [id |-> observables[observers[o].obs].mock.id, from |-> "mock",
                  args |-> IF ResponseOf(observers[o].obs).result = "function"
                           THEN observables[observers[o].obs].op.variables
                           ELSE Undefined],
       at |-> t],
      [type |-> "complete", value |-> NoValue, at |-> t]>>

\* C37: when the listener of an observer submits an operation while it is
\* handed a result, the operation is served by the head of the queue of its
\* key as the earlier operations left it, which is the earliest registered
\* response for the key with matches left (wildcard before regular); one
\* match of that head is consumed and every other queue is unchanged; the
\* queues stay in registration order with counts of at least one; and the
\* observer is sent the result of the response that served its own
\* operation, then the completion, as without the submission.
C37_Reentrancy ==
    [][FireTimerWithRequest(QueryDoc, Variables1) =>
          LET o == timers[NextTimer].observer
              served == observables'[NewOp]
              wk == queryToString(addTypename, QueryDoc)
              rk == queryAndVariablesToString(addTypename, QueryDoc, Variables1)
          IN  /\ IF MapHas(wildcardMatches, wk)
                 THEN /\ served.mode = "wildcard"
                      /\ served.mock.id = wildcardMatches[wk][1].id
                      /\ served.mock.id = Min(StillQueued(TRUE, wk))
                      /\ ConsumedOne(wildcardMatches[wk], QueueOf(wildcardMatches', wk))
                      /\ OthersSame(wildcardMatches, wildcardMatches', wk)
                      /\ regularMatches' = regularMatches
                 ELSE IF MapHas(regularMatches, rk)
                 THEN /\ served.mode = "regular"
                      /\ StillQueued(TRUE, wk) = {}
                      /\ served.mock.id = regularMatches[rk][1].id
                      /\ served.mock.id = Min(StillQueued(FALSE, rk))
                      /\ ConsumedOne(regularMatches[rk], QueueOf(regularMatches', rk))
                      /\ OthersSame(regularMatches, regularMatches', rk)
                      /\ wildcardMatches' = wildcardMatches
                 ELSE /\ served.mode = "none"
                      /\ StillQueued(TRUE, wk) = {}
                      /\ StillQueued(FALSE, rk) = {}
                      /\ wildcardMatches' = wildcardMatches
                      /\ regularMatches' = regularMatches
              /\ InRegistrationOrder(wildcardMatches')
              /\ InRegistrationOrder(regularMatches')
              /\ CountAtLeastOne(wildcardMatches')
              /\ CountAtLeastOne(regularMatches')
              /\ observers'[o].events
                    = observers[o].events \o Delivery(o, timers[NextTimer].due)
              /\ observers'[o].closed
      ]_vars

\* C37 witness: the first operation was served by the response that matches
\* twice; while its observer was handed the result, with the variables of
\* its operation, the listener submitted the operation again, which was
\* served by the same response and used it up: the response registered
\* after it is now the head of the queue.
C37_Witness ==
    /\ Len(observables) = 2
    /\ observables[1].mock.id = 1
    /\ observables[2].mock.id = 1
    /\ observables[2].mode = "regular"
    /\ regularMatches[queryAndVariablesToString(addTypename, QueryDoc, Variables1)][1].id = 2
    /\ \E o \in Callers :
          /\ observers[o].obs = 1
          /\ observers[o].events = Delivery(o, now)
          /\ observers[o].events[1].value.args = Variables1
          /\ \E tracker \in Observers :
                /\ observers[tracker].internal
                /\ observers[tracker].obs = 2
                /\ observers[tracker].since = now
                /\ observers[tracker].events = <<>>

----------------------------------------------------------------------------
(* Properties of the request window *)

\* the wait w of waitForAllResponsesRecursively is resolved in this step, by
\* the call itself or later
ResolvedNow(w) ==
    /\ waits'[w].kind = "recursive"
    /\ waits'[w].pc = "resolved"
    /\ w <= Len(waits) => waits[w].pc # "resolved"

\* the step is the end of the request window of the wait w: the callback of
\* its delay(requestWindow) timer runs and finds no promise pending
WindowOver(w) ==
    /\ w <= Len(waits)
    /\ waits[w].pc = "window"
    /\ timers # <<>>
    /\ timers[NextTimer].type = "window"
    /\ timers[NextTimer].value.id = w
    /\ now' = timers[NextTimer].due
    /\ pendingResponses = {}

\* C38: the promise of waitForAllResponsesRecursively(requestWindow) is
\* resolved only at the end of a request window, by a check that finds no
\* promise pending, also when no promise was pending when it was called.
C38_ResolvedAfterWindow ==
    [][\A w \in 1..Len(waits') : ResolvedNow(w) => WindowOver(w)]_vars

\* the promise of a call that found a promise pending is resolved only at
\* the end of a request window, by a check that finds no promise pending
C38_ResolvedAfterWindowWhenPending ==
    [][\A w \in 1..Len(waits) : ResolvedNow(w) => WindowOver(w)]_vars

----------------------------------------------------------------------------
(* Properties of responses with neither result nor error *)

\* C39: a query or mutation answered with the error that the mock must
\* provide error or result was matched by the head of a queue, wildcard or
\* regular, and has consumed one match of it like an operation that was
\* served: the head has one match less, or has left the queue when that
\* was its last or only match, so the registry has changed; every other
\* queue is unchanged.
C39_IncompleteConsumed ==
    [][(RequestStep /\ observables'[NewOp].error = "MustProvide") =>
          LET served == observables'[NewOp]
              wk == queryToString(addTypename, served.op.query)
              rk == queryAndVariablesToString(addTypename, served.op.query,
                                              served.op.variables)
          IN  /\ served.mode \in {"wildcard", "regular"}
              /\ <<wildcardMatches', regularMatches'>> # <<wildcardMatches, regularMatches>>
              /\ served.mode = "wildcard" =>
                    /\ served.mock.id = wildcardMatches[wk][1].id
                    /\ ConsumedOne(wildcardMatches[wk], QueueOf(wildcardMatches', wk))
                    /\ OthersSame(wildcardMatches, wildcardMatches', wk)
                    /\ regularMatches' = regularMatches
              /\ served.mode = "regular" =>
                    /\ served.mock.id = regularMatches[rk][1].id
                    /\ ConsumedOne(regularMatches[rk], QueueOf(regularMatches', rk))
                    /\ OthersSame(regularMatches, regularMatches', rk)
                    /\ wildcardMatches' = wildcardMatches
      ]_vars

\* C39 witness: the first operation matched the response with neither
\* result nor error, which matches once, and got the error; the second
\* operation was served by the response registered behind it.
C39_Witness ==
    /\ Len(observables) = 2
    /\ observables[1].kind = "error"
    /\ observables[1].error = "MustProvide"
    /\ observables[1].mock.id = 1
    /\ registered[1].response.nMatches = NMNumber(1)
    /\ observables[2].kind = "forward"
    /\ observables[2].mock.id = 2

----------------------------------------------------------------------------
(* Properties of the observers of one Observable *)

\* the result an observer of the Observable is sent: the value of the
\* response, or what its function returns for the variables
ResultFor(observable, responses) ==
    [id |-> observable.mock.id, from |-> "mock",
     args |-> IF responses[observable.mock.id].response.result = "function"
              THEN observable.op.variables
              ELSE Undefined]

TimersOf(pending, o) == {t \in 1..Len(pending) : pending[t].observer = o}

ResultsSent(obsvs, o) ==
    {e \in 1..Len(obsvs[o].events) : obsvs[o].events[e].value.from = "mock"}

\* C40: every observer of the Observable returned for a served query, the
\* link's own listener subscribed by request and each observer the caller
\* subscribes, has a timer of its own, set when it subscribed and due after
\* the delay of the response, and is sent the result by its own call inside
\* its own invocation of act, for which the result function is called with
\* the variables of the operation; request sets the timer of the link's
\* listener and consumes one match of the response, and no subscribe call
\* and no timer changes the registry.
C40_DeliveryPerListener ==
    [][/\ \A o \in 1..Len(observers') :
            observables'[observers'[o].obs].kind = "forward" =>
                LET observable == observables'[observers'[o].obs]
                    result == ResultFor(observable, registered')
                IN  /\ Cardinality(TimersOf(timers', o))
                          + Cardinality(ResultsSent(observers', o)) = 1
                    /\ \A t \in TimersOf(timers', o) :
                          /\ timers'[t].value = result
                          /\ timers'[t].due = observers'[o].since + observable.mock.delay
                    /\ \A e \in ResultsSent(observers', o) :
                          /\ observers'[o].events[e].value = result
                          /\ observers'[o].events[e].at
                                = observers'[o].since + observable.mock.delay
                    /\ CopiesIn(Invocation(act', <<Call(o, "next", result)>>), acts')
                          = Cardinality(ResultsSent(observers', o))
       /\ (RequestStep /\ observables'[NewOp].kind = "forward") =>
             LET served == observables'[NewOp]
                 wk == queryToString(addTypename, served.op.query)
                 rk == queryAndVariablesToString(addTypename, served.op.query,
                                                 served.op.variables)
             IN  /\ Len(observers') = Len(observers) + 1
                 /\ observers'[Len(observers')].internal
                 /\ observers'[Len(observers')].obs = NewOp
                 /\ Len(timers') = Len(timers) + 1
                 /\ served.mode = "wildcard" =>
                       ConsumedOne(wildcardMatches[wk], QueueOf(wildcardMatches', wk))
                 /\ served.mode = "regular" =>
                       ConsumedOne(regularMatches[rk], QueueOf(regularMatches', rk))
       /\ ~RequestStep => UNCHANGED <<wildcardMatches, regularMatches>>
       /\ (~RequestStep /\ Len(observers') = Len(observers) + 1
             /\ observables[observers'[Len(observers')].obs].kind = "forward") =>
             /\ ~observers'[Len(observers')].internal
             /\ Len(timers') = Len(timers) + 1
             /\ timers'[Len(timers')].observer = Len(observers')
      ]_vars

\* C40 witness: one query was submitted and served by the response whose
\* result is a function, which has one match left; the link's listener and
\* two observers of the caller subscribed to its Observable, and each of the
\* three was sent the result for the variables of the query inside an
\* invocation of act of its own.
C40_Witness ==
    /\ Len(observables) = 1
    /\ observables[1].kind = "forward"
    /\ registered[1].response.result = "function"
    /\ \E k \in DOMAIN wildcardMatches : wildcardMatches[k][1].nMatches = NMNumber(1)
    /\ Cardinality(Callers) = 2
    /\ Len(observers) = 3
    /\ \A o \in Observers :
          /\ observers[o].obs = 1
          /\ Cardinality(ResultsSent(observers, o)) = 1
          /\ observers[o].events[1].value.args = Variables1
    /\ BagCardinality(acts) = 3
    /\ timers = <<>>

====
